---- MODULE Spec2Model ----
(***************************************************************************)
(* The DynASM AArch64 encoding engine (dasm_init .. dasm_encode) as a      *)
(* state machine: pass 1 (dasm_put), pass 2 (dasm_link), pass 3            *)
(* (dasm_encode), and the immediate encoders they call.                    *)
(*                                                                         *)
(* Representation.  A C int is an Integer.  A 64-bit long / unsigned long  *)
(* and a 32-bit output word are the set of their set bit positions         *)
(* (a subset of 0..63, of 0..31), so that &, |, ~ and the shifts are the   *)
(* set operations and no value exceeds TLC's 32-bit integers.  An action   *)
(* list word is the pair <<high 16 bits, low 16 bits>>.                    *)
(***************************************************************************)
EXTENDS Integers, Sequences, FiniteSets, TLC

----------------------------------------------------------------------------
(* Bit-level helpers                                                       *)

Pow2(k) == 2 ^ k

\* x & (2^k - 1) on a two's-complement int
LowBits(x, k) == x % Pow2(k)

\* x >> k on a two's-complement int (arithmetic shift)
Shr(x, k) == x \div Pow2(k)

\* the set bits of a non-negative int below bit w
BitsOfW(x, w) == {i \in 0..(w - 1) : (x \div Pow2(i)) % 2 = 1}

\* the set bits of a non-negative int (< 2^31)
BitsOf(x) == BitsOfW(x, 31)

RECURSIVE SumPow(_)
SumPow(S) == IF S = {} THEN 0
             ELSE LET i == CHOOSE j \in S : TRUE IN Pow2(i) + SumPow(S \ {i})

\* the non-negative int whose set bits are S (S within 0..30)
NatOf(S) == SumPow(S)

\* a | b and a & b on non-negative ints
BitOr(a, b) == NatOf(BitsOf(a) \cup BitsOf(b))
BitAnd(a, b) == NatOf(BitsOf(a) \cap BitsOf(b))

\* a C long (64 bit) from a small int, sign extended
LongOf(x) == IF x >= 0 THEN BitsOf(x)
             ELSE (0..63) \ BitsOf(-x - 1)

\* (int)l : the low 32 bits of a long as a signed int
IntOf(l) == IF 31 \in l
            THEN -(NatOf((0..30) \ l)) - 1
            ELSE NatOf(l \cap (0..30))

\* the 32-bit word <<hi, lo>> as a set of bits
WordBits(w) == BitsOfW(w[2], 16) \cup {i + 16 : i \in BitsOfW(w[1], 16)}

\* the low 32 bits of an int as a set of bits (an int OR-ed into a word)
IntBits(x) == IF x >= 0 THEN BitsOf(x) ELSE (0..31) \ BitsOf(-x - 1)

----------------------------------------------------------------------------
(* Action definitions and status codes                                     *)

DASM_STOP == 0
DASM_SECTION == 1
DASM_ESC == 2
DASM_REL_EXT == 3
DASM_ALIGN == 4
DASM_REL_LG == 5
DASM_LABEL_LG == 6
DASM_REL_PC == 7
DASM_LABEL_PC == 8
DASM_IMM == 9
DASM_IMMADDROFF == 10
DASM_IMMNSR == 11
DASM_IMMLSB == 12
DASM_IMMWIDTH1 == 13
DASM_IMMWIDTH2 == 14
DASM_IMMSHIFT == 15
DASM_IMMMOV == 16
DASM_IMMTBN == 17
DASM_IMMA2H == 18
DASM_IMMA2H64 == 19
DASM_IMMA2HFP == 20
DASM_IMM8FP == 21
DASM_IMMHLM == 22
DASM_IMMQSS == 23
DASM_IMMHB == 24
DASM_IMMSCALE == 25
DASM__MAX == 26

DASM_S_OK == 0
DASM_S_PHASE == 33554432
DASM_S_MATCH_SEC == 50331648
DASM_S_RANGE_I == 285212672
DASM_S_RANGE_SEC == 301989888
DASM_S_RANGE_LG == 318767104
DASM_S_RANGE_PC == 335544320
DASM_S_RANGE_REL == 352321536
DASM_S_UNDEF_LG == 553648128
DASM_S_UNDEF_PC == 570425344

\* Maximum number of buffer positions for a single dasm_put() call
DASM_MAXSECPOS == 25

\* Positions: 8 bit section + 24 bit index
DASM_SEC2POS(sec) == sec * 16777216
DASM_POS2SEC(pos) == pos \div 16777216
DASM_POS2IDX(pos) == pos % 16777216
DASM_POS2BIAS(pos) == (pos \div 16777216) * 16777216

----------------------------------------------------------------------------
(* Logical-bitmask immediates: generatensrmap, getnsrencode                *)

\* (one << s) - 1
OnesBelow(s) == 0..(s - 1)

\* (t>>r) | ((t & ((one<<r)-1)) << (esize-r)), or t itself when r = 0
RotateElem(t, r, esize) ==
    IF r = 0 THEN t
    ELSE {i - r : i \in {j \in t : j >= r}}
         \cup {i + (esize - r) : i \in (t \cap OnesBelow(r))}

\* es = 0; u = 0; while (es < width) { u |= (t1 << es); es += esize; }
\* the result truncated to width bits
Replicate(t1, esize, width) ==
    {b \in 0..(width - 1) :
        \E k \in 0..((width - 1) \div esize) : (b - k * esize) \in t1}

\* imms = (~((1<<(len+1))-1)) & 0x3f
NsrImmsPrefix(len) == NatOf((0..5) \ BitsOf(Pow2(len + 1) - 1))

\* encode = ((imms | (s-1)) << 10) | (r << 16)
NsrEncodeSmall(len, s, r) ==
    BitOr(BitOr(NsrImmsPrefix(len), s - 1) * Pow2(10), r * Pow2(16))

\* encode = (0x400000 | ((s-1) << 10) | (r << 16))
NsrEncode64(s, r) == BitOr(BitOr(4194304, (s - 1) * Pow2(10)), r * Pow2(16))

\* variant: the longest run of each element size is left out (s < S1)
NsrSmallIndexShort ==
    {t \in (1..5) \X (1..31) \X (0..31) :
        t[2] < Pow2(t[1]) - 1 /\ t[3] <= Pow2(t[1]) - 1}

\* the (len, s, r) triples of the first loop nest: len 1..5, s 1..S1, r 0..R
NsrSmallIndex ==
    {t \in (1..5) \X (1..31) \X (0..31) :
        t[2] <= Pow2(t[1]) - 1 /\ t[3] <= Pow2(t[1]) - 1}

\* the (s, r) pairs of the second loop nest: s 1..63, r 0..63
Nsr64Index == (1..63) \X (0..63)

\* The tables after generatensrmap.  qsort orders them by imm and bsearch
\* finds an entry by imm, so a table is modelled as the set of its entries.
generatensrmap ==
    [map32 |->
        {[imm |-> Replicate(RotateElem(OnesBelow(t[2]), t[3], Pow2(t[1])),
                            Pow2(t[1]), 32),
          encode |-> NsrEncodeSmall(t[1], t[2], t[3])] : t \in NsrSmallIndex},
     map64 |->
        {[imm |-> Replicate(RotateElem(OnesBelow(t[2]), t[3], Pow2(t[1])),
                            Pow2(t[1]), 64),
          encode |-> NsrEncodeSmall(t[1], t[2], t[3])] : t \in NsrSmallIndex}
        \cup
        {[imm |-> RotateElem(OnesBelow(t[1]), t[2], 64),
          encode |-> NsrEncode64(t[1], t[2])] : t \in Nsr64Index}]

nsrmap32 == generatensrmap.map32
nsrmap64 == generatensrmap.map64

\* What a bsearch can see of the global tables.  "sorted": the tables as
\* generatensrmap leaves them.  "lost": the search runs while another
\* dasm_init is inside generatensrmap, which overwrites the sorted entries
\* in generation order before it sorts again; the entry searched for is
\* overwritten or out of place and the search does not reach it.
SortedView == "sorted"
LostView == "lost"

\* bsearch(&p, base, nmember, sizeof(p), nsrpaircompare): ok = 0 when no entry
\* compares equal to imm, else ok = 1 and the entry's encode
getnsrencode(view, imm, bit64) ==
    LET base == IF bit64 = 1 THEN nsrmap64 ELSE nsrmap32
        hits == {e \in base : e.imm = imm}
    IN  IF hits = {} \/ view = LostView THEN [ok |-> 0, encode |-> 0]
        ELSE [ok |-> 1, encode |-> (CHOOSE e \in hits : TRUE).encode]

----------------------------------------------------------------------------
(* Wide-move immediates: wide_imm                                          *)

\* the 16-bit lane mask m = 0xffff << (16*i)
LaneMask(i) == (16 * i)..(16 * i + 15)

\* (unsigned int)(((l >> (i*16)) << 5) | (i << 21)), for l inside lane i
WideEncode(l, i) ==
    BitOr(NatOf({b - 16 * i : b \in {c \in l : c >= 16 * i}}) * Pow2(5),
          i * Pow2(21))

\* variant: without the l == 0 case
wide_imm_nonzero(l, bit64) ==
    LET n == IF bit64 = 1 THEN 4 ELSE 2
        lanes == {i \in 0..(n - 1) :
                     (l \cap LaneMask(i)) # {} /\ (l \ LaneMask(i)) = {}}
    IN  IF lanes # {}
        THEN LET i == CHOOSE j \in lanes : \A k \in lanes : j <= k
             IN  [ok |-> 1, encode |-> WideEncode(l, i)]
        ELSE [ok |-> 0, encode |-> 0]

\* for (i=0; i<n; i++) if ((l&m) && !(l&~m)) return 1 with the encode
wide_imm(l, bit64) ==
    LET n == IF bit64 = 1 THEN 4 ELSE 2
        lanes == {i \in 0..(n - 1) :
                     (l \cap LaneMask(i)) # {} /\ (l \ LaneMask(i)) = {}}
    IN  IF l = {} THEN [ok |-> 1, encode |-> 0]
        ELSE IF lanes # {}
             THEN LET i == CHOOSE j \in lanes : \A k \in lanes : j <= k
                  IN  [ok |-> 1, encode |-> WideEncode(l, i)]
             ELSE [ok |-> 0, encode |-> 0]

\* ~l on a 64-bit long
NotLong(l) == (0..63) \ l

----------------------------------------------------------------------------
(* The action list the front end produced for this build, and the caller's *)
(* set-up parameters                                                       *)

MaxSection == 2     \* dasm_init(Dst, maxsection)
MaxGlobals == 11    \* dasm_setupglobal(Dst, gl, maxgl)
MaxPc == 2          \* dasm_growpc(Dst, maxpc)
MaxPuts == 3        \* dasm_put calls per session

Act(action, val) == <<action, val>>
STOPW == Act(DASM_STOP, 0)
RETW == <<54879, 960>>      \* 0xd65f03c0  ret
NOPW == <<54531, 8223>>     \* 0xd503201f  nop
BW == <<5120, 0>>           \* 0x14000000  b      (word label26)
BCONDW == <<21504, 0>>      \* 0x54000000  b.eq   (word label19)
TBZW == <<13824, 0>>        \* 0x36000000  tbz    (word label14)
ADRW == <<4096, 0>>         \* 0x10000000  adr    (byte label21)
ADRPW == <<36864, 0>>       \* 0x90000000  adrp   (page label21)
MOVW == <<0, 0>>            \* mov w0, #imm: the opcode comes from IMMMOV
MOVX == <<32768, 0>>        \* 0x80000000  mov x0, #imm
ANDW == <<4608, 0>>         \* 0x12000000  and w0, w0, #imm
ANDX == <<37376, 0>>        \* 0x92000000  and x0, x0, #imm
LDRX == <<63808, 32>>       \* 0xf9400020  ldr x0, [x1, #imm]
FMOVV == <<28416, 62464>>   \* 0x6f00f400  fmov v0.2d, #imm
FMOVD == <<7776, 4096>>     \* 0x1e601000  fmov d0, #imm
BFIW == <<13056, 32>>       \* 0x33000020  bfi w0, w1, #lsb, #width
BFIX == <<45888, 32>>       \* 0xb3400020  bfi x0, x1, #lsb, #width

\* relocation modes, (ins & 0xf000)
RelPage == 0
RelByte21 == 4096
RelWord14 == 8192
RelWord19 == 12288
RelWord26 == 16384

T_RET == <<RETW, STOPW>>
\* b >1 ; nop ; nop
T_FWD == <<BW, Act(DASM_REL_LG, RelWord26 + 1), NOPW, NOPW, STOPW>>
\* 1: ; ret
T_L1 == <<Act(DASM_LABEL_LG, 11), RETW, STOPW>>
\* tbz <1
T_BWD == <<TBZW, Act(DASM_REL_LG, RelWord14 + 11), STOPW>>
\* adr ->g0   (global 20: below the first index dasm_link collapses)
T_GREF == <<ADRW, Act(DASM_REL_LG, RelByte21 + 20), STOPW>>
\* .align 16 ; ->g0: ; ret
T_GDEF == <<Act(DASM_ALIGN, 15), Act(DASM_LABEL_LG, 20), RETW, STOPW>>
\* b.eq =>pc
T_PCREF == <<BCONDW, Act(DASM_REL_PC, RelWord19), STOPW>>
\* =>pc: ; nop
T_PCDEF == <<Act(DASM_LABEL_PC, 0), NOPW, STOPW>>
\* nop ; .align 8
T_ALIGN == <<NOPW, Act(DASM_ALIGN, 7), STOPW>>
\* ret ; .section 1   (the words after the SECTION action are never reached)
T_SEC1 == <<RETW, Act(DASM_SECTION, 1), RETW, STOPW>>
T_SEC0 == <<Act(DASM_SECTION, 0)>>
\* an escaped literal word 0x00060014 whose high half equals DASM_LABEL_LG
T_ESC == <<Act(DASM_ESC, 0), <<6, 20>>, STOPW>>
\* and w0, w0, #imm   (32 and 64 bit)
T_NSR32 == <<ANDW, Act(DASM_IMMNSR, 0), STOPW>>
T_NSR64 == <<ANDX, Act(DASM_IMMNSR, 1), STOPW>>
\* mov w0, #imm (the word 0x00000000 is escaped) and mov x0, #imm
T_MOV32 == <<Act(DASM_ESC, 0), MOVW, Act(DASM_IMMMOV, 0), STOPW>>
T_MOV64 == <<MOVX, Act(DASM_IMMMOV, 1), STOPW>>
\* adrp / adr / tbz / b.eq / b to an external symbol, one per relocation mode
T_EXTPAGE == <<ADRPW, Act(DASM_REL_EXT, RelPage), STOPW>>
T_EXTBYTE == <<ADRW, Act(DASM_REL_EXT, RelByte21), STOPW>>
T_EXTW14 == <<TBZW, Act(DASM_REL_EXT, RelWord14), STOPW>>
T_EXTW19 == <<BCONDW, Act(DASM_REL_EXT, RelWord19), STOPW>>
T_EXTW26 == <<BW, Act(DASM_REL_EXT, RelWord26), STOPW>>
\* the access size of ldr x0: 2^3 bytes
AddrScale == 3
\* ldr x0, [x1, #imm], fmov v0.2d, #imm and fmov d0, #imm
T_ADDROFF == <<LDRX, Act(DASM_IMMADDROFF, AddrScale * 1024), STOPW>>
T_A2HFP == <<FMOVV, Act(DASM_IMMA2HFP, 0), STOPW>>
T_8FP == <<FMOVD, Act(DASM_IMM8FP, 0), STOPW>>
\* =>pc: ; tbz <1
T_PCDEFBWD == <<Act(DASM_LABEL_PC, 0), TBZW, Act(DASM_REL_LG, RelWord14 + 11),
                STOPW>>
\* a block of 24 forward branches `b >1`: with its start word the call
\* takes DASM_MAXSECPOS buffer positions
T_BIG ==
    [i \in 1..(2 * (DASM_MAXSECPOS - 1)) |->
        IF i % 2 = 1 THEN BW ELSE Act(DASM_REL_LG, RelWord26 + 1)]
    \o <<STOPW>>
\* adr ->g10   (global 30: the first index dasm_link collapses)
T_GREF10 == <<ADRW, Act(DASM_REL_LG, RelByte21 + 30), STOPW>>
\* b >2
T_FWD2 == <<BW, Act(DASM_REL_LG, RelWord26 + 2), STOPW>>
\* bfi w0, w1, #lsb, #width and bfi x0, x1, #lsb, #width
T_BFI32 == <<BFIW, Act(DASM_IMMLSB, 0), Act(DASM_IMMWIDTH1, 0), STOPW>>
T_BFI64 == <<BFIX, Act(DASM_IMMLSB, 1), Act(DASM_IMMWIDTH1, 1), STOPW>>

ActionList ==
    T_RET \o T_FWD \o T_L1 \o T_BWD \o T_GREF \o T_GDEF \o T_PCREF \o T_PCDEF
    \o T_ALIGN \o T_SEC1 \o T_SEC0 \o T_ESC
    \o T_NSR32 \o T_NSR64 \o T_MOV32 \o T_MOV64
    \o T_EXTPAGE \o T_EXTBYTE \o T_EXTW14 \o T_EXTW19 \o T_EXTW26
    \o T_ADDROFF \o T_A2HFP \o T_8FP \o T_PCDEFBWD \o T_BIG
    \o T_GREF10 \o T_FWD2 \o T_BFI32 \o T_BFI64

\* the start offsets dasm_put is called with
S_RET == Len(<<>>)
S_FWD == S_RET + Len(T_RET)
S_L1 == S_FWD + Len(T_FWD)
S_BWD == S_L1 + Len(T_L1)
S_GREF == S_BWD + Len(T_BWD)
S_GDEF == S_GREF + Len(T_GREF)
S_PCREF == S_GDEF + Len(T_GDEF)
S_PCDEF == S_PCREF + Len(T_PCREF)
S_ALIGN == S_PCDEF + Len(T_PCDEF)
S_SEC1 == S_ALIGN + Len(T_ALIGN)
S_SEC0 == S_SEC1 + Len(T_SEC1)
S_ESC == S_SEC0 + Len(T_SEC0)
S_NSR32 == S_ESC + Len(T_ESC)
S_NSR64 == S_NSR32 + Len(T_NSR32)
S_MOV32 == S_NSR64 + Len(T_NSR64)
S_MOV64 == S_MOV32 + Len(T_MOV32)
S_EXTPAGE == S_MOV64 + Len(T_MOV64)
S_EXTBYTE == S_EXTPAGE + Len(T_EXTPAGE)
S_EXTW14 == S_EXTBYTE + Len(T_EXTBYTE)
S_EXTW19 == S_EXTW14 + Len(T_EXTW14)
S_EXTW26 == S_EXTW19 + Len(T_EXTW19)
S_ADDROFF == S_EXTW26 + Len(T_EXTW26)
S_A2HFP == S_ADDROFF + Len(T_ADDROFF)
S_8FP == S_A2HFP + Len(T_A2HFP)
S_PCDEFBWD == S_8FP + Len(T_8FP)
S_BIG == S_PCDEFBWD + Len(T_PCDEFBWD)
S_GREF10 == S_BIG + Len(T_BIG)
S_FWD2 == S_GREF10 + Len(T_GREF10)
S_BFI32 == S_FWD2 + Len(T_FWD2)
S_BFI64 == S_BFI32 + Len(T_BFI32)

\* *p for p = D->actionlist + i
AL(i) == ActionList[i + 1]

----------------------------------------------------------------------------
(* The encoding state                                                      *)

\* lgsize and pcsize in ints
LgLen == 10 + MaxGlobals
PcLen == MaxPc

\* dasm_init followed by dasm_setupglobal, dasm_growpc and dasm_setup
dasm_setup ==
    [sections |-> [i \in 0..(MaxSection - 1) |->
                      [pos |-> DASM_SEC2POS(i), ofs |-> 0]],
     buf |-> <<>>,
     lglabels |-> [i \in 0..(LgLen - 1) |-> 0],
     pclabels |-> [i \in 0..(PcLen - 1) |-> 0],
     section |-> 0,
     status |-> DASM_S_OK,
     codesize |-> 0,
     globals |-> [i \in 0..(MaxGlobals - 1) |-> -1]]

\* variant: dasm_setup on a used context leaves the label slots alone
dasm_setup_keeplabels(D) ==
    [D EXCEPT !.status = DASM_S_OK,
              !.section = 0,
              !.sections = [i \in 0..(MaxSection - 1) |->
                               [pos |-> DASM_SEC2POS(i), ofs |-> 0]]]

\* dasm_setup(Dst, actionlist) on a context that has been used: the status,
\* the active section, the label slots and every section's pos and ofs are
\* reset; the section buffers, codesize and the globals array are not
dasm_setup_again(D) ==
    [D EXCEPT !.status = DASM_S_OK,
              !.section = 0,
              !.lglabels = [i \in 0..(LgLen - 1) |-> 0],
              !.pclabels = [i \in 0..(PcLen - 1) |-> 0],
              !.sections = [i \in 0..(MaxSection - 1) |->
                               [pos |-> DASM_SEC2POS(i), ofs |-> 0]]]

\* DASM_M_GROW(ctx, t, p, sz, need): the new size in bytes.  The buffer is
\* grown geometrically, by doubling from at least 16 bytes until the need is
\* met; its contents are kept.
RECURSIVE Doubled(_, _)
Doubled(sz, need) == IF sz < need THEN Doubled(sz + sz, need) ELSE sz
DASM_M_GROW(sz, need) ==
    IF sz < need THEN Doubled(IF sz < 16 THEN 16 ELSE sz, need) ELSE sz

\* The memory of the section buffers, per section: buf and rbuf name the
\* allocation they point into (0 for NULL; rbuf is buf minus the section
\* bias), bsize is the size in bytes, epos the position at which dasm_put
\* grows the buffer.  dasm_init leaves every section without a buffer.
dasm_init_sections ==
    [i \in 0..(MaxSection - 1) |-> [buf |-> 0, rbuf |-> 0, bsize |-> 0, epos |-> 0]]

\* variant: rbuf is not recomputed after the buffer was reallocated
PutGrowStaleRbuf(h, sec, pos) ==
    IF pos >= h[sec].epos
    THEN LET bs == DASM_M_GROW(h[sec].bsize,
                               h[sec].bsize + 2 * DASM_MAXSECPOS * 4)
             moved == IF h[sec].buf = 0 THEN {1}
                      ELSE {h[sec].buf, h[sec].buf + 1}
         IN  {[h EXCEPT ![sec] =
                  [buf |-> b, rbuf |-> h[sec].rbuf, bsize |-> bs,
                   epos |-> (bs \div 4) - DASM_MAXSECPOS + DASM_POS2BIAS(pos)]] :
              b \in moved}
    ELSE {h}

\* if (pos >= sec->epos) { DASM_M_GROW(...); sec->rbuf = ...; sec->epos = ...; }
\* realloc either extends the allocation in place or moves it: both outcomes
PutGrow(h, sec, pos) ==
    IF pos >= h[sec].epos
    THEN LET bs == DASM_M_GROW(h[sec].bsize,
                               h[sec].bsize + 2 * DASM_MAXSECPOS * 4)
             moved == IF h[sec].buf = 0 THEN {1}
                      ELSE {h[sec].buf, h[sec].buf + 1}
         IN  {[h EXCEPT ![sec] =
                  [buf |-> b, rbuf |-> b, bsize |-> bs,
                   epos |-> (bs \div 4) - DASM_MAXSECPOS + DASM_POS2BIAS(pos)]] :
              b \in moved}
    ELSE {h}

\* b[pos] = v
Store(buf, pos, v) == (pos :> v) @@ buf

----------------------------------------------------------------------------
(* Pass 1: dasm_put                                                        *)
(* The loop state c: D (the encoding state), p (action list index), pos    *)
(* and ofs (the locals), ap (the remaining variadic arguments, each a      *)
(* long), halt ("run", "stop" at the stop label, "ck" after a failed CK),  *)
(* view (what a search of the global immediate tables sees).               *)

\* variant: a failed check returns without recording the status
CKSilent(c, st) == [c EXCEPT !.halt = "ck"]

\* CK(x, st) failing: D->status = DASM_S_st|(p-D->actionlist-1); return
CK(c, st) == [c EXCEPT !.D.status = BitOr(st, c.p - 1), !.halt = "ck"]

\* CKPL(kind, st): the slot index lies inside the label array
CKPL_ok(idx, len) == idx >= 0 /\ idx < len

\* b[pos++] = v
Emit(c, v) == [c EXCEPT !.D.buf = Store(c.D.buf, c.pos, v), !.pos = c.pos + 1]

\* variant: a reference to an already defined label is resolved to buffer
\* position 0 instead of the label's position
PutRelBackZero(c, kind, idx) ==
    LET n == c.D[kind][idx] IN
    IF n < 0 THEN Emit(c, 0)
    ELSE [Emit(c, n) EXCEPT !.D[kind][idx] = c.pos]

\* putrel: n = *pl; label exists: store its position; else link into chain
PutRel(c, kind, idx) ==
    LET n == c.D[kind][idx] IN
    IF n < 0 THEN Emit(c, -n)
    ELSE [Emit(c, n) EXCEPT !.D[kind][idx] = c.pos]

\* linkrel with a given n: b[pos] = n; *pl = pos; pos++
LinkRel(c, kind, idx, n) == [Emit(c, n) EXCEPT !.D[kind][idx] = c.pos]

\* variant: only the head of the chain is replaced
CollapseHead(buf, n, v) == IF n > 0 THEN [buf EXCEPT ![n] = v] ELSE buf

\* while (n > 0) { int *pb = DASM_POS2PTR(D, n); n = *pb; *pb = pos; }
RECURSIVE CollapseChain(_, _, _)
CollapseChain(buf, n, v) ==
    IF n > 0 THEN CollapseChain([buf EXCEPT ![n] = v], buf[n], v) ELSE buf

\* putlabel: collapse the chain, *pl = -pos, b[pos++] = ofs
PutLabel(c, kind, idx) ==
    LET b1 == CollapseChain(c.D.buf, c.D[kind][idx], c.pos) IN
    [c EXCEPT !.D.buf = Store(b1, c.pos, c.ofs),
              !.D[kind][idx] = -c.pos,
              !.pos = c.pos + 1]

\* variant: a section switch does not end the call
PutSectionGoesOn(c, ins) ==
    LET n == ins[2] % 256 IN
    IF ~(n < MaxSection) THEN CK(c, DASM_S_RANGE_SEC)
    ELSE [c EXCEPT !.D.section = n]

\* case DASM_SECTION
PutSection(c, ins) ==
    LET n == ins[2] % 256 IN
    IF ~(n < MaxSection) THEN CK(c, DASM_S_RANGE_SEC)
    ELSE [c EXCEPT !.D.section = n, !.halt = "stop"]

\* variant: the worst-case padding is taken to be mask + 1 bytes
PutAlignFullPad(c, ins) ==
    LET o == c.ofs + (ins[2] % 256) + 1 IN [Emit(c, o) EXCEPT !.ofs = o]

\* case DASM_ALIGN: ofs += (ins & 255); b[pos++] = ofs
PutAlign(c, ins) ==
    LET o == c.ofs + (ins[2] % 256) IN [Emit(c, o) EXCEPT !.ofs = o]

\* case DASM_REL_LG
PutRelLG(c, ins) ==
    LET n == (ins[2] % 2048) - 10 IN
    IF n >= 0
    THEN IF ~(n >= 10 \/ c.D.lglabels[n] < 0) THEN CK(c, DASM_S_RANGE_LG)
         ELSE IF ~CKPL_ok(n, LgLen) THEN CK(c, DASM_S_RANGE_LG)
         ELSE PutRel(c, "lglabels", n)
    ELSE LET v == c.D.lglabels[n + 10] IN
         LinkRel(c, "lglabels", n + 10, IF v < 0 THEN 0 ELSE v)

\* case DASM_REL_PC
PutRelPC(c, n) ==
    IF ~CKPL_ok(n, PcLen) THEN CK(c, DASM_S_RANGE_PC)
    ELSE PutRel(c, "pclabels", n)

\* case DASM_LABEL_LG
PutLabelLG(c, ins) ==
    LET idx == (ins[2] % 2048) - 10 IN
    IF ~CKPL_ok(idx, LgLen) THEN CK(c, DASM_S_RANGE_LG)
    ELSE PutLabel(c, "lglabels", idx)

\* case DASM_LABEL_PC
PutLabelPC(c, n) ==
    IF ~CKPL_ok(n, PcLen) THEN CK(c, DASM_S_RANGE_PC)
    ELSE PutLabel(c, "pclabels", n)

\* case DASM_IMMNSR
PutImmNsr(c, ins, l) ==
    IF ~(ins[2] <= 1) THEN CK(c, DASM_S_RANGE_I)
    ELSE LET r == getnsrencode(c.view, l, ins[2] % 2) IN
         IF r.ok = 0 THEN CK(c, DASM_S_RANGE_I) ELSE Emit(c, r.encode)

\* l == 0xffff0000 || l == 0x0000ffff
MovExcluded(l) == l = 16..31 \/ l = 0..15

\* case DASM_IMMMOV
PutImmMov(c, ins, l) ==
    IF ~(ins[2] <= 1) THEN CK(c, DASM_S_RANGE_I)
    ELSE LET bit64 == ins[2] % 2
             w == wide_imm(l, bit64)
             wn == wide_imm(NotLong(l), bit64)
             nsr == getnsrencode(c.view, l, bit64)
         IN  IF w.ok = 1 THEN Emit(c, BitOr(w.encode, 1384120320))
             ELSE IF wn.ok = 1 /\ ~(bit64 = 0 /\ MovExcluded(l))
                  THEN Emit(c, BitOr(wn.encode, 310378496))
             ELSE IF nsr.ok = 1 THEN Emit(c, BitOr(nsr.encode, 838860800))
             ELSE CK(c, DASM_S_RANGE_I)

\* (field & (2^w - 1)) << sh stored into an int buffer word
IntOfField(field, w, sh) ==
    IntOf({i + sh : i \in BitsOfW(LowBits(field, w), w)} \cap (0..31))

\* case DASM_IMM: scale (ins>>10)&31, width (ins>>5)&31, shift ins&31,
\* signed if ins & 0x8000
PutImm(c, ins, n) ==
    LET scale == (ins[2] \div 1024) % 32
        bits == (ins[2] \div 32) % 32
        shift == ins[2] % 32
        signed == (ins[2] \div 32768) % 2 = 1
    IN  IF LowBits(n, scale) # 0 THEN CK(c, DASM_S_RANGE_I)
        ELSE IF signed /\ Shr(n + Pow2(bits - 1), bits) # 0
        THEN CK(c, DASM_S_RANGE_I)
        ELSE IF ~signed /\ Shr(n, bits) # 0 THEN CK(c, DASM_S_RANGE_I)
        ELSE Emit(c, IntOfField(Shr(n, scale), bits, shift))

\* case DASM_IMMADDROFF: no CK; the unscaled form is marked by bit 0
PutImmAddrOff(c, ins, n) ==
    LET scale == (ins[2] \div 1024) % 32 IN
    IF (n >= -256 /\ n < 0) \/ (n <= 255 /\ LowBits(n, scale) # 0)
    THEN Emit(c, 1 + LowBits(n, 9) * 4096)
    ELSE Emit(c, LowBits(Shr(n, scale), 12) * 1024)

\* max = (ins&1) ? 63 : 31, as a number of bits
MaxBits(ins) == IF ins[2] % 2 = 1 THEN 6 ELSE 5

\* case DASM_IMMLSB
PutImmLsb(c, ins, n) ==
    IF ~(ins[2] <= 1) THEN CK(c, DASM_S_RANGE_I)
    ELSE IF ~(n >= 0 /\ n <= Pow2(MaxBits(ins)) - 1) THEN CK(c, DASM_S_RANGE_I)
    ELSE Emit(c, LowBits(-n, MaxBits(ins)) * 65536)

\* case DASM_IMMWIDTH1: compares with b[pos-1]>>16
PutImmWidth1(c, ins, n) ==
    IF ~(ins[2] <= 1) THEN CK(c, DASM_S_RANGE_I)
    ELSE IF ~(n - 1 >= 0 /\ n - 1 < Shr(c.D.buf[c.pos - 1], 16))
    THEN CK(c, DASM_S_RANGE_I)
    ELSE Emit(c, LowBits(n - 1, MaxBits(ins)) * 1024)

\* case DASM_IMMWIDTH2: immr = b[pos-1]>>16, imms = immr + n - 1
PutImmWidth2(c, ins, n) ==
    LET immr == Shr(c.D.buf[c.pos - 1], 16)
        imms == immr + n - 1
    IN  IF ~(ins[2] <= 1) THEN CK(c, DASM_S_RANGE_I)
        ELSE IF ~(imms >= immr /\ imms <= Pow2(MaxBits(ins)) - 1)
        THEN CK(c, DASM_S_RANGE_I)
        ELSE Emit(c, LowBits(imms, MaxBits(ins)) * 1024)

\* case DASM_IMMSHIFT
PutImmShift(c, ins, n) ==
    LET max == Pow2(MaxBits(ins)) - 1 IN
    IF ~(ins[2] <= 1) THEN CK(c, DASM_S_RANGE_I)
    ELSE IF ~(n >= 0 /\ n <= max) THEN CK(c, DASM_S_RANGE_I)
    ELSE Emit(c, BitOr(LowBits(-n, MaxBits(ins)) * 65536,
                       LowBits(max - n, MaxBits(ins)) * 1024))

\* case DASM_IMMTBN
PutImmTbn(c, ins, n) ==
    IF ~(ins[2] <= 1) THEN CK(c, DASM_S_RANGE_I)
    ELSE IF ~((ins[2] % 2 = 1 /\ n >= 32 /\ n <= 63)
              \/ (ins[2] % 2 = 0 /\ n >= 0 /\ n <= 31))
    THEN CK(c, DASM_S_RANGE_I)
    ELSE Emit(c, LowBits(n, 5) * Pow2(19))

\* ((e>>5)<<16) | ((e&0x1f)<<5) for an 8-bit e
A2HEncode(e) == Shr(e, 5) * 65536 + LowBits(e, 5) * 32

\* case DASM_IMMA2H
PutImmA2H(c, n) ==
    IF ~(n >= 0 /\ n <= 255) THEN CK(c, DASM_S_RANGE_I)
    ELSE Emit(c, A2HEncode(n))

\* a2h64_imm: every byte of l is 0x00 or 0xff
a2h64_imm(l) ==
    LET byte(i) == l \cap ((8 * i)..(8 * i + 7))
        full == {i \in 0..7 : byte(i) = (8 * i)..(8 * i + 7)}
    IN  IF \E i \in 0..7 : i \notin full /\ byte(i) # {}
        THEN [ok |-> 0, encode |-> 0]
        ELSE [ok |-> 1, encode |-> A2HEncode(NatOf(full))]

\* case DASM_IMMA2H64
PutImmA2H64(c, l) ==
    LET r == a2h64_imm(l) IN
    IF r.ok = 0 THEN CK(c, DASM_S_RANGE_I) ELSE Emit(c, r.encode)

\* s = l>>63, e = (l>>52) & 0x7ff, sig = (l>>48) & 0xf
FpSign(l) == IF 63 \in l THEN 1 ELSE 0
FpExp(l) == NatOf({i - 52 : i \in (l \cap (52..62))})
FpSig(l) == NatOf({i - 48 : i \in (l \cap (48..51))})

\* ((e&0x400) && !(e&0x3fc)) || (!(e&0x400) && ((e&0x3fc)==0x3fc))
FpExpOk(e) ==
    LET hi == Shr(e, 10) % 2
        mid == Shr(e, 2) % 256
    IN  (hi = 1 /\ mid = 0) \/ (hi = 0 /\ mid = 255)

\* case DASM_IMMA2HFP
PutImmA2HFP(c, l) ==
    LET e == FpExp(l) IN
    IF ~FpExpOk(e) THEN CK(c, DASM_S_RANGE_I)
    ELSE Emit(c, FpSign(l) * Pow2(18) + Shr(e, 10) * Pow2(17)
                 + (Shr(e, 1) % 2) * Pow2(16) + (e % 2) * Pow2(9)
                 + FpSig(l) * 32)

\* case DASM_IMM8FP
PutImm8FP(c, l) ==
    LET e == FpExp(l) IN
    IF ~FpExpOk(e) THEN CK(c, DASM_S_RANGE_I)
    ELSE Emit(c, FpSign(l) * Pow2(20) + Shr(e, 10) * Pow2(19)
                 + (e % 4) * Pow2(17) + FpSig(l) * Pow2(13))

\* case DASM_IMMHLM
PutImmHlm(c, ins, n) ==
    LET bits == ins[2] IN
    IF ~(bits >= 1 /\ bits <= 3 /\ n >= 0 /\ n < Pow2(bits))
    THEN CK(c, DASM_S_RANGE_I)
    ELSE Emit(c, IF bits = 3 THEN (Shr(n, 2) % 2) * Pow2(11) + (n % 4) * Pow2(20)
                 ELSE IF bits = 2
                 THEN (Shr(n, 1) % 2) * Pow2(11) + (n % 2) * Pow2(21)
                 ELSE (n % 2) * Pow2(11))

\* case DASM_IMMQSS
PutImmQss(c, ins, n) ==
    LET bits == ins[2] IN
    IF ~(bits >= 1 /\ bits <= 4 /\ n >= 0 /\ n < Pow2(bits))
    THEN CK(c, DASM_S_RANGE_I)
    ELSE Emit(c, IF bits = 4 THEN (Shr(n, 3) % 2) * Pow2(30) + (n % 8) * Pow2(10)
                 ELSE IF bits = 3
                 THEN (Shr(n, 2) % 2) * Pow2(30) + (n % 4) * Pow2(11)
                 ELSE IF bits = 2
                 THEN (Shr(n, 1) % 2) * Pow2(30) + (n % 2) * Pow2(12)
                 ELSE (n % 2) * Pow2(30))

\* case DASM_IMMHB
PutImmHb(c, ins, n) ==
    LET bits == ins[2] IN
    IF ~(bits >= 3 /\ bits <= 6 /\ n >= 1 /\ n <= Pow2(bits))
    THEN CK(c, DASM_S_RANGE_I)
    ELSE Emit(c, LowBits(Pow2(bits) - n, bits) * 65536)

\* case DASM_IMMSCALE
PutImmScale(c, ins, n) ==
    LET bits == MaxBits(ins) IN
    IF ~(ins[2] <= 1) THEN CK(c, DASM_S_RANGE_I)
    ELSE IF ~(n >= 1 /\ n <= Pow2(bits)) THEN CK(c, DASM_S_RANGE_I)
    ELSE Emit(c, LowBits(Pow2(bits) - n, bits) * 1024)

\* one iteration of the while (1) loop
PutAction(c) ==
    LET ins == AL(c.p)
        action == ins[1]
        c1 == [c EXCEPT !.p = c.p + 1]
        hasarg == action >= DASM_REL_PC /\ action < DASM__MAX
        l == IF hasarg THEN Head(c.ap) ELSE {}
        n == IntOf(l)
        c2 == IF hasarg THEN [c1 EXCEPT !.ap = Tail(c.ap)] ELSE c1
    IN  IF action >= DASM__MAX THEN [c1 EXCEPT !.ofs = c.ofs + 4]
        ELSE CASE action = DASM_STOP -> [c2 EXCEPT !.halt = "stop"]
               [] action = DASM_SECTION -> PutSection(c2, ins)
               [] action = DASM_ESC -> [c2 EXCEPT !.p = c.p + 2, !.ofs = c.ofs + 4]
               [] action = DASM_REL_EXT -> c2
               [] action = DASM_ALIGN -> PutAlign(c2, ins)
               [] action = DASM_REL_LG -> PutRelLG(c2, ins)
               [] action = DASM_REL_PC -> PutRelPC(c2, n)
               [] action = DASM_LABEL_LG -> PutLabelLG(c2, ins)
               [] action = DASM_LABEL_PC -> PutLabelPC(c2, n)
               [] action = DASM_IMMNSR -> PutImmNsr(c2, ins, l)
               [] action = DASM_IMMMOV -> PutImmMov(c2, ins, l)
               [] action = DASM_IMM -> PutImm(c2, ins, n)
               [] action = DASM_IMMADDROFF -> PutImmAddrOff(c2, ins, n)
               [] action = DASM_IMMLSB -> PutImmLsb(c2, ins, n)
               [] action = DASM_IMMWIDTH1 -> PutImmWidth1(c2, ins, n)
               [] action = DASM_IMMWIDTH2 -> PutImmWidth2(c2, ins, n)
               [] action = DASM_IMMSHIFT -> PutImmShift(c2, ins, n)
               [] action = DASM_IMMTBN -> PutImmTbn(c2, ins, n)
               [] action = DASM_IMMA2H -> PutImmA2H(c2, n)
               [] action = DASM_IMMA2H64 -> PutImmA2H64(c2, l)
               [] action = DASM_IMMA2HFP -> PutImmA2HFP(c2, l)
               [] action = DASM_IMM8FP -> PutImm8FP(c2, l)
               [] action = DASM_IMMHLM -> PutImmHlm(c2, ins, n)
               [] action = DASM_IMMQSS -> PutImmQss(c2, ins, n)
               [] action = DASM_IMMHB -> PutImmHb(c2, ins, n)
               [] action = DASM_IMMSCALE -> PutImmScale(c2, ins, n)

RECURSIVE PutLoop(_)
PutLoop(c) == IF c.halt # "run" THEN c ELSE PutLoop(PutAction(c))

\* dasm_put(Dst, start, ...): on a failed CK only the status, the buffer
\* words and the label slots written so far are kept; at the stop label the
\* entry section's pos and ofs are committed
dasm_put(D, start, args, view) ==
    LET sec == D.section
        pos == D.sections[sec].pos
        c0 == [D |-> [D EXCEPT !.buf = Store(D.buf, pos, start)],
               p |-> start, pos |-> pos + 1, ofs |-> D.sections[sec].ofs,
               ap |-> args, halt |-> "run", view |-> view]
        c == PutLoop(c0)
    IN  IF c.halt = "ck" THEN c.D
        ELSE [c.D EXCEPT !.sections[sec] = [pos |-> c.pos, ofs |-> c.ofs]]

----------------------------------------------------------------------------
(* Pass 2: dasm_link                                                       *)

\* variant: the highest undefined PC label is reported
LastUndefPc(D) ==
    LET U == {pc \in 0..(PcLen - 1) : D.pclabels[pc] > 0} IN
    IF U = {} THEN -1 ELSE CHOOSE pc \in U : \A q \in U : pc >= q

\* the lowest pc with D->pclabels[pc] > 0, or -1
FirstUndefPc(D) ==
    LET U == {pc \in 0..(PcLen - 1) : D.pclabels[pc] > 0} IN
    IF U = {} THEN -1 ELSE CHOOSE pc \in U : \A q \in U : pc <= q

\* while (n > 0) { int *pb = DASM_POS2PTR(D, n); n = *pb; *pb = -idx; }
\* for idx = FirstGlobalIdx .. lgsize/sizeof(int)-1
FirstGlobalIdx == 20

RECURSIVE LinkGlobals(_, _, _)
LinkGlobals(buf, lg, idx) ==
    IF idx >= LgLen THEN buf
    ELSE LinkGlobals(CollapseChain(buf, lg[idx], -idx), lg, idx + 1)

\* variant: the alignment entry is rewritten in place like a label entry
LinkAlignStore(w, ins) ==
    [w EXCEPT !.ofs = w.ofs - BitAnd(LowBits(w.buf[w.pos] + w.ofs, 8),
                                      ins[2] % 256),
              !.buf[w.pos] = w.buf[w.pos] + w.ofs,
              !.pos = w.pos + 1]

\* case DASM_ALIGN: ofs -= (b[pos++] + ofs) & (ins & 255)
LinkAlign(w, ins) ==
    LET shrink == BitAnd(LowBits(w.buf[w.pos] + w.ofs, 8), ins[2] % 256) IN
    [w EXCEPT !.ofs = w.ofs - shrink,
              !.shrunk = Append(w.shrunk, shrink),
              !.pos = w.pos + 1]

\* variant: label entries are left section-relative
LinkLabelNoBase(w) == [w EXCEPT !.pos = w.pos + 1]

\* case DASM_LABEL_LG: case DASM_LABEL_PC: b[pos++] += ofs
LinkLabel(w) ==
    [w EXCEPT !.buf[w.pos] = w.buf[w.pos] + w.ofs, !.pos = w.pos + 1]

\* one action of the inner while (1) loop of pass 2
LinkAction(w) ==
    LET ins == AL(w.p)
        action == ins[1]
        w1 == [w EXCEPT !.p = w.p + 1]
    IN  CASE action = DASM_STOP \/ action = DASM_SECTION -> [w1 EXCEPT !.p = -1]
          [] action = DASM_ESC -> [w1 EXCEPT !.p = w.p + 2]
          [] action = DASM_REL_EXT -> w1
          [] action = DASM_ALIGN -> LinkAlign(w1, ins)
          [] action = DASM_REL_LG \/ action = DASM_REL_PC ->
                [w1 EXCEPT !.pos = w.pos + 1]
          [] action = DASM_LABEL_LG \/ action = DASM_LABEL_PC -> LinkLabel(w1)
          [] action >= DASM_IMM /\ action < DASM__MAX ->
                [w1 EXCEPT !.pos = w.pos + 1]
          [] OTHER -> w1

\* while (1) { ins = *p++; ... }: the actions of one dasm_put call, up to
\* its stop
RECURSIVE LinkCall(_)
LinkCall(w) == IF w.p >= 0 THEN LinkCall(LinkAction(w)) ELSE w

\* while (pos != lastpos) { p = D->actionlist + b[pos++]; while (1) ... }
RECURSIVE LinkSection(_, _)
LinkSection(w, lastpos) ==
    IF w.pos # lastpos
    THEN LinkSection(LinkCall([w EXCEPT !.p = w.buf[w.pos],
                                        !.pos = w.pos + 1]),
                     lastpos)
    ELSE w

\* for (secnum = 0; secnum < D->maxsection; secnum++) { ...; ofs += sec->ofs; }
RECURSIVE LinkSections(_, _, _)
LinkSections(D, buf, st) ==
    IF st.secnum >= MaxSection
    THEN [buf |-> buf, ofs |-> st.ofs, shrunk |-> st.shrunk]
    ELSE LET w == LinkSection([buf |-> buf, ofs |-> st.ofs,
                               shrunk |-> st.shrunk,
                               pos |-> DASM_SEC2POS(st.secnum), p |-> -1],
                              D.sections[st.secnum].pos)
         IN  LinkSections(D, w.buf,
                          [secnum |-> st.secnum + 1,
                           ofs |-> w.ofs + D.sections[st.secnum].ofs,
                           shrunk |-> w.shrunk])

\* dasm_link(Dst, &sz): the state after, the returned status and *szp;
\* shrunk records, for each alignment passed, the bytes taken off ofs
dasm_link(D) ==
    IF D.status # DASM_S_OK
    THEN [D |-> D, status |-> D.status, sz |-> 0, shrunk |-> <<>>]
    ELSE IF FirstUndefPc(D) >= 0
         THEN [D |-> D, status |-> BitOr(DASM_S_UNDEF_PC, FirstUndefPc(D)),
               sz |-> 0, shrunk |-> <<>>]
    ELSE LET b1 == LinkGlobals(D.buf, D.lglabels, FirstGlobalIdx)
             r == LinkSections(D, b1,
                               [secnum |-> 0, ofs |-> 0, shrunk |-> <<>>])
         IN  [D |-> [D EXCEPT !.buf = r.buf, !.codesize = r.ofs],
              status |-> DASM_S_OK, sz |-> r.ofs, shrunk |-> r.shrunk]

----------------------------------------------------------------------------
(* Pass 3: dasm_encode                                                     *)

\* two's-complement long helpers
LongShr(l, k) == {i - k : i \in {j \in l : j >= k}}
                 \cup (IF 63 \in l THEN (64 - k)..63 ELSE {})
\* a < b on signed longs
LongLt(a, b) ==
    IF (63 \in a) # (63 \in b) THEN 63 \in a
    ELSE a # b /\ LET d == (a \ b) \cup (b \ a)
                      m == CHOOSE i \in d : \A j \in d : j <= i
                  IN  m \in b

\* ((x & (2^k - 1)) << sh) as word bits, for a long x
Field(x, k, sh) == {i + sh : i \in (x \cap (0..(k - 1)))} \cap (0..31)

\* variant: the upper bound of every mode is inclusive
PatchRelInclusive(ins, n) ==
    LET mode == (ins[2] \div 4096) * 4096
        n1 == LongShr(n, 12)
        aligned4 == (n \cap {0, 1}) = {}
    IN  IF mode = RelPage
        THEN [ok |-> (n \cap (0..11)) = {}
                     /\ LongLt(LongOf(-1048576), n1)
                     /\ ~LongLt(LongOf(1048576), n1),
              bits |-> Field(n1, 2, 29) \cup Field(LongShr(n1, 2), 19, 5)]
        ELSE IF mode = RelByte21
        THEN [ok |-> LongLt(LongOf(-1048576), n) /\ ~LongLt(LongOf(1048576), n),
              bits |-> Field(n, 2, 29) \cup Field(LongShr(n, 2), 19, 5)]
        ELSE IF mode = RelWord14
        THEN [ok |-> aligned4 /\ LongLt(LongOf(-32768), n)
                     /\ ~LongLt(LongOf(32768), n),
              bits |-> Field(LongShr(n, 2), 15, 5)]
        ELSE IF mode = RelWord19
        THEN [ok |-> aligned4 /\ LongLt(LongOf(-1048576), n)
                     /\ ~LongLt(LongOf(1048576), n),
              bits |-> Field(LongShr(n, 2), 19, 5)]
        ELSE [ok |-> aligned4 /\ LongLt(LongOf(-134217728), n)
                     /\ ~LongLt(LongOf(134217728), n),
              bits |-> Field(LongShr(n, 2), 26, 0)]

\* patchrel: the range check of the mode (ins & 0xf000) and the bits OR-ed
\* into cp[-1], for the displacement n (a long)
PatchRel(ins, n) ==
    LET mode == (ins[2] \div 4096) * 4096
        n1 == LongShr(n, 12)
        aligned4 == (n \cap {0, 1}) = {}
    IN  IF mode = RelPage
        THEN [ok |-> (n \cap (0..11)) = {}
                     /\ LongLt(LongOf(-1048576), n1)
                     /\ LongLt(n1, LongOf(1048576)),
              bits |-> Field(n1, 2, 29) \cup Field(LongShr(n1, 2), 19, 5)]
        ELSE IF mode = RelByte21
        THEN [ok |-> LongLt(LongOf(-1048576), n) /\ LongLt(n, LongOf(1048576)),
              bits |-> Field(n, 2, 29) \cup Field(LongShr(n, 2), 19, 5)]
        ELSE IF mode = RelWord14
        THEN [ok |-> aligned4 /\ LongLt(LongOf(-32768), n)
                     /\ LongLt(n, LongOf(32768)),
              bits |-> Field(LongShr(n, 2), 15, 5)]
        ELSE IF mode = RelWord19
        THEN [ok |-> aligned4 /\ LongLt(LongOf(-1048576), n)
                     /\ LongLt(n, LongOf(1048576)),
              bits |-> Field(LongShr(n, 2), 19, 5)]
        ELSE [ok |-> aligned4 /\ LongLt(LongOf(-134217728), n)
                     /\ LongLt(n, LongOf(134217728)),
              bits |-> Field(LongShr(n, 2), 26, 0)]

\* the filler word 0xe1a00000 written by DASM_ALIGN
AlignFiller == WordBits(<<57760, 0>>)

\* (char *)cp - base
CpOfs(e) == 4 * Len(e.out)

\* cp[-1] |= bits
OrLast(e, bits) == [e EXCEPT !.out[Len(e.out)] = e.out[Len(e.out)] \cup bits]

\* CK(x, st) failing in pass 3: return DASM_S_st|(p-D->actionlist-1)
EncFail(e, st) == [e EXCEPT !.status = BitOr(st, e.p - 1), !.halt = TRUE]

\* variant: the padding is zero words
RECURSIVE EncAlignZero(_, _)
EncAlignZero(e, mask) ==
    IF BitAnd(LowBits(CpOfs(e), 8), mask) # 0
    THEN EncAlignZero([e EXCEPT !.out = Append(e.out, {})], mask)
    ELSE e

\* while ((((char *)cp - base) & ins)) *cp++ = 0xe1a00000
RECURSIVE EncAlign(_, _)
EncAlign(e, mask) ==
    IF BitAnd(LowBits(CpOfs(e), 8), mask) # 0
    THEN EncAlign([e EXCEPT !.out = Append(e.out, AlignFiller)], mask)
    ELSE e

\* patchrel with the displacement n (a long), for the site at buffer
\* position site
EncPatch(e, ins, n, site, target) ==
    LET r == PatchRel(ins, n) IN
    IF ~r.ok THEN EncFail(e, DASM_S_RANGE_REL)
    ELSE [OrLast(e, r.bits) EXCEPT
            !.patches = Append(e.patches,
                [site |-> site, ins |-> ins, at |-> CpOfs(e) - 4, n |-> n,
                 target |-> target, bits |-> r.bits])]

\* variant: the displacement is taken from the end of the patched word
EncRelNoBias(e, ins, n, st, site) ==
    IF ~(n >= 0) THEN EncFail(e, st)
    ELSE EncPatch(e, ins, LongOf(e.buf[n] - CpOfs(e)), site, n)

\* case DASM_REL_LG / DASM_REL_PC:
\*   n = *DASM_POS2PTR(D, n) - (int)((char *)cp - base) + 4
EncRel(e, ins, n, st, site) ==
    IF ~(n >= 0) THEN EncFail(e, st)
    ELSE EncPatch(e, ins, LongOf(e.buf[n] - CpOfs(e) + 4), site, n)

\* case DASM_IMMADDROFF: if (n&1 == 1) cp[-1] &= 0xfeffffff; cp[-1] |= (n & ~1)
EncAddrOff(e, n) ==
    LET last == e.out[Len(e.out)]
        cleared == IF n % 2 = 1 THEN last \ {24} ELSE last
    IN  [e EXCEPT !.out[Len(e.out)] = cleared \cup (IntBits(n) \ {0})]

\* variant: the array is indexed without the bias of dasm_setupglobal
EncLabelLGUnbiased(e, ins, n) ==
    LET k == ins[2] % 2048 IN
    IF k >= 20 THEN [e EXCEPT !.globals[k - 10] = n] ELSE e

\* case DASM_LABEL_LG: if (ins >= 20) D->globals[ins-10] = (void *)(base + n)
\* with D->globals = gl - 10; the entries are offsets from base
EncLabelLG(e, ins, n) ==
    LET k == ins[2] % 2048 IN
    IF k >= 20 THEN [e EXCEPT !.globals[k - 20] = n] ELSE e

\* one action of the inner while (1) loop of pass 3
EncAction(e) ==
    LET ins == AL(e.p)
        action == ins[1]
        hasn == action >= DASM_ALIGN /\ action < DASM__MAX
        n == IF hasn THEN e.buf[e.b] ELSE 0
        e1 == [e EXCEPT !.p = e.p + 1, !.b = IF hasn THEN e.b + 1 ELSE e.b]
    IN  IF action >= DASM__MAX
        THEN [e1 EXCEPT !.out = Append(e.out, WordBits(ins))]
        ELSE CASE action = DASM_STOP \/ action = DASM_SECTION ->
                    [e1 EXCEPT !.p = -1]
               [] action = DASM_ESC ->
                    [e1 EXCEPT !.out = Append(e.out, WordBits(AL(e.p + 1))),
                               !.p = e.p + 2]
               [] action = DASM_REL_EXT -> EncPatch(e1, ins, e.ext, -1, -1)
               [] action = DASM_ALIGN ->
                    LET e2 == EncAlign(e1, ins[2] % 256) IN
                    [e2 EXCEPT
                        !.aligns = Append(e.aligns,
                            [mask |-> ins[2] % 256, from |-> CpOfs(e),
                             to |-> CpOfs(e2)])]
               [] action = DASM_REL_LG ->
                    EncRel(e1, ins, n, DASM_S_UNDEF_LG, e.b)
               [] action = DASM_REL_PC ->
                    EncRel(e1, ins, n, DASM_S_UNDEF_PC, e.b)
               [] action = DASM_LABEL_LG ->
                    [EncLabelLG(e1, ins, n) EXCEPT
                        !.labels = Append(e.labels,
                            [pos |-> e.b, at |-> CpOfs(e), ofs |-> n])]
               [] action = DASM_LABEL_PC ->
                    [e1 EXCEPT
                        !.labels = Append(e.labels,
                            [pos |-> e.b, at |-> CpOfs(e), ofs |-> n])]
               [] action = DASM_IMMADDROFF -> EncAddrOff(e1, n)
               [] OTHER -> OrLast(e1, IntBits(n))

\* while (1) { ins = *p++; ... }: the actions of one dasm_put call, up to
\* its stop or a CK that returns
RECURSIVE EncCall(_)
EncCall(e) ==
    IF e.halt THEN e
    ELSE IF e.p >= 0 THEN EncCall(EncAction(e))
    ELSE e

\* while (b != endb) { p = D->actionlist + *b++; while (1) ... }
RECURSIVE EncSection(_, _)
EncSection(e, endb) ==
    IF e.halt THEN e
    ELSE IF e.b # endb
         THEN EncSection(EncCall([e EXCEPT !.p = e.buf[e.b],
                                           !.b = e.b + 1]),
                         endb)
         ELSE e

RECURSIVE EncSections(_, _, _)
EncSections(D, e, secnum) ==
    IF e.halt \/ secnum >= MaxSection THEN e
    ELSE EncSections(D,
            EncSection([e EXCEPT !.b = DASM_SEC2POS(secnum), !.p = -1],
                       D.sections[secnum].pos),
            secnum + 1)

\* #define DASM_EXTERN(a,b,c,d) 0
DASM_EXTERN == {}

\* dasm_encode(Dst, buffer), in a build whose DASM_EXTERN yields ext (a
\* long): the words written, the globals array and the returned status;
\* patches and labels record, for each relocation patched and each label
\* passed, where the write cursor was
dasm_encode(D, ext) ==
    LET e0 == [buf |-> D.buf, out |-> <<>>, b |-> 0, p |-> -1, ext |-> ext,
               globals |-> D.globals, status |-> DASM_S_OK, halt |-> FALSE,
               patches |-> <<>>, labels |-> <<>>, aligns |-> <<>>]
        e == EncSections(D, e0, 0)
    IN  [out |-> e.out, globals |-> e.globals, patches |-> e.patches,
         labels |-> e.labels, aligns |-> e.aligns,
         status |-> IF e.halt THEN e.status
                    ELSE IF D.codesize # CpOfs(e) THEN DASM_S_PHASE
                    ELSE DASM_S_OK]

----------------------------------------------------------------------------
(* Queries                                                                 *)

\* dasm_getpclabel(Dst, pc)
dasm_getpclabel(D, pc) ==
    IF pc < PcLen
    THEN LET pos == D.pclabels[pc] IN
         IF pos < 0 THEN D.buf[-pos]
         ELSE IF pos > 0 THEN -1
         ELSE -2
    ELSE -2

\* variant: the local label slots are left as they are
dasm_checkstep_keep(S, secmatch) ==
    LET U == {i \in 1..9 : S.lglabels[i] > 0}
        S1 == IF S.status = DASM_S_OK /\ U # {}
              THEN [S EXCEPT !.status =
                        BitOr(DASM_S_UNDEF_LG,
                              CHOOSE i \in U : \A j \in U : i <= j)]
              ELSE S
    IN  IF S1.status = DASM_S_OK /\ secmatch >= 0 /\ S1.section # secmatch
        THEN [S1 EXCEPT !.status = BitOr(DASM_S_MATCH_SEC, S1.section)]
        ELSE S1

\* dasm_checkstep(Dst, secmatch): the state after; the value returned is its
\* status.  The loop clears the slots below the first positive one.
dasm_checkstep(S, secmatch) ==
    LET U == {i \in 1..9 : S.lglabels[i] > 0}
        stop == IF U = {} THEN 10 ELSE CHOOSE i \in U : \A j \in U : i <= j
        S1 == IF S.status = DASM_S_OK
              THEN [S EXCEPT
                      !.lglabels = [i \in DOMAIN S.lglabels |->
                                      IF i >= 1 /\ i < stop THEN 0
                                      ELSE S.lglabels[i]],
                      !.status = IF U # {} THEN BitOr(DASM_S_UNDEF_LG, stop)
                                 ELSE DASM_S_OK]
              ELSE S
    IN  IF S1.status = DASM_S_OK /\ secmatch >= 0 /\ S1.section # secmatch
        THEN [S1 EXCEPT !.status = BitOr(DASM_S_MATCH_SEC, S1.section)]
        ELSE S1

----------------------------------------------------------------------------
(* The session: dasm_put calls, then dasm_link, then dasm_encode           *)

VARIABLES
    D,        \* the dasm_State
    phase,    \* "put", "linked", "encoded": the caller's position
    calls,    \* the dasm_put calls made so far: start, args, entry section,
              \* and whether the call reached its stop label
    linked,   \* what dasm_link returned: status and *szp
    encoded,  \* what dasm_encode returned and wrote
    first,    \* the results of the first link + encode, once a second
              \* run on the same context has begun
    got,      \* the caller's last query: the PC label index passed to
              \* dasm_getpclabel and the value returned, until the next call
    tables,   \* the global nsrmap32 and nsrmap64: "built", or "writing"
              \* while a dasm_init of another context is in generatensrmap
    setups,   \* how often dasm_setup has been called again on the context
    heap,     \* the memory of the section buffers
    steps,    \* the dasm_checkstep calls made: after how many dasm_put
              \* calls, with which secmatch, the status found and the
              \* status returned
    cc        \* the ahead-of-time compiler (compile): its input text, the
              \* index of the next character, the bracket stack, the
              \* bracket counter, the labels and jumps printed, and
              \* whether it runs, has printed the epilogue or called err

vars ==
    <<D, phase, calls, linked, encoded, first, got, tables, setups, heap,
      steps, cc>>

NoLink == [status |-> -1, sz |-> 0, shrunk |-> <<>>]
NoEncode == [status |-> -1, out |-> <<>>, globals |-> <<>>,
             patches |-> <<>>, labels |-> <<>>, aligns |-> <<>>, ext |-> {}]
NoFirst == [status |-> -1, sz |-> 0, out |-> <<>>]
NoQuery == [pc |-> -1, ret |-> 0]
\* compile has not been given a text
NoCompile == [text |-> <<>>, i |-> 1, stack |-> <<>>, num |-> 0,
              out |-> <<>>, state |-> "idle"]

Init ==
    /\ D = dasm_setup
    /\ phase = "put"
    /\ calls = <<>>
    /\ linked = NoLink
    /\ encoded = NoEncode
    /\ first = NoFirst
    /\ got = NoQuery
    /\ tables = "built"
    /\ setups = 0
    /\ heap = dasm_init_sections
    /\ steps = <<>>
    /\ cc = NoCompile

\* what a search can see in the current state of the tables
TableViews == IF tables = "built" THEN {SortedView} ELSE {SortedView, LostView}

\* the calls the translated program makes
LabelCalls ==
    {[start |-> st, args |-> <<>>] :
        st \in {S_RET, S_FWD, S_L1, S_BWD, S_GREF, S_GDEF, S_ALIGN,
                S_SEC1, S_SEC0, S_ESC}}
    \cup {[start |-> st, args |-> <<LongOf(pc)>>] :
            st \in {S_PCREF}, pc \in 0..(MaxPc - 1)}
    \cup {[start |-> st, args |-> <<LongOf(pc)>>] :
            st \in {S_PCDEF}, pc \in 0..(MaxPc - 1)}

\* one dasm_put call: the buffer of the active section is grown if its end
\* is near, then the actions are processed
PutCall(call) ==
    /\ phase = "put"
    /\ heap' \in PutGrow(heap, D.section, D.sections[D.section].pos)
    /\ \E view \in TableViews :
            D' = dasm_put(D, call.start, call.args, view)
    /\ calls' = Append(calls, [start |-> call.start, args |-> call.args,
                               sec |-> D.section,
                               ok |-> D'.sections # D.sections])
    /\ got' = NoQuery
    /\ UNCHANGED <<phase, linked, encoded, first, tables, setups, steps, cc>>

Put(call) == Len(calls) < MaxPuts /\ PutCall(call)

\* the context and the record of the call after a dasm_link that returned r
AfterLink(r) ==
    /\ D' = r.D
    /\ linked' = [status |-> r.status, sz |-> r.sz, shrunk |-> r.shrunk]

Link ==
    /\ phase = "put"
    /\ AfterLink(dasm_link(D))
    /\ phase' = "linked"
    /\ got' = NoQuery
    /\ UNCHANGED <<calls, encoded, first, tables, setups, heap, steps, cc>>

\* dasm_encode in a build whose DASM_EXTERN yields ext
\* the context and the record of the call after a dasm_encode that returned r
AfterEncode(r, ext) ==
    /\ D' = [D EXCEPT !.globals = r.globals]
    /\ encoded' = [status |-> r.status, out |-> r.out,
                   globals |-> r.globals, patches |-> r.patches,
                   labels |-> r.labels, aligns |-> r.aligns,
                   ext |-> ext]

EncodeWith(ext) ==
    /\ phase = "linked"
    /\ linked.status = DASM_S_OK
    /\ AfterEncode(dasm_encode(D, ext), ext)
    /\ phase' = "encoded"
    /\ got' = NoQuery
    /\ UNCHANGED <<calls, linked, first, tables, setups, heap, steps, cc>>

Encode == EncodeWith(DASM_EXTERN)

Next ==
    \/ \E call \in LabelCalls : Put(call)
    \/ Link
    \/ Encode

Spec == Init /\ [][Next]_vars

\* A caller that runs dasm_link (and then dasm_encode) a second time on the
\* same context, without any dasm_put or dasm_setup in between
Relink ==
    /\ phase = "encoded"
    /\ first = NoFirst
    /\ first' = [status |-> encoded.status, sz |-> linked.sz,
                 out |-> encoded.out]
    /\ AfterLink(dasm_link(D))
    /\ phase' = "linked"
    /\ got' = NoQuery
    /\ UNCHANGED <<calls, encoded, tables, setups, heap, steps, cc>>

\* a second run needs a first dasm_encode, which is reached only when every
\* dasm_put left the status at DASM_S_OK
PutOk(call) == Put(call) /\ D'.status = DASM_S_OK

\* the calls of a re-run session: those with labels, references, alignment
\* or a section switch
RerunCalls == {call \in LabelCalls : call.start \notin {S_RET, S_ESC}}

NextRerun ==
    \/ \E call \in RerunCalls : PutOk(call)
    \/ Link
    \/ Encode
    \/ Relink

SpecRerun == Init /\ [][NextRerun]_vars

----------------------------------------------------------------------------
(* Sessions that emit one instruction with an immediate operand, and       *)
(* sessions that emit one reference to an external symbol                  *)

\* a run of k ones rotated right by r inside an element of size e and
\* replicated to fill w bits
RotatedRun(k, r, e, w) == {b \in 0..(w - 1) : ((b % e) + r) % e < k}

\* the logical-bitmask immediates of width w
BitmaskSet(w) ==
    {RotatedRun(t[2], t[3], t[1], w) :
        t \in {u \in {2, 4, 8, 16, 32, 64} \X (1..63) \X (0..63) :
                  u[1] <= w /\ u[2] <= u[1] - 1 /\ u[3] <= u[1] - 1}}
Bitmask32 == BitmaskSet(32)
Bitmask64 == BitmaskSet(64)

\* a value with one bit inverted
Flip(v, b) == (v \ {b}) \cup ({b} \ v)

\* the operands tried for a 32-bit and a 64-bit logical immediate: every
\* bitmask immediate of the width, each of them with one bit inverted,
\* 0, all-ones, and 32-bit patterns with bits above bit 31 set
NsrOperands32 ==
    Bitmask32 \cup {Flip(v, 5) : v \in Bitmask32}
    \cup {{}, 0..31, 0..63, {0, 2}, (4..31) \cup (32..63), 32..63, {32}}
NsrOperands64 ==
    Bitmask64 \cup {Flip(v, 37) : v \in Bitmask64}
    \cup {{}, 0..63, {0, 2}, {0, 32, 33}}

NsrCalls ==
    {[start |-> S_NSR32, args |-> <<l>>] : l \in NsrOperands32}
    \cup {[start |-> S_NSR64, args |-> <<l>>] : l \in NsrOperands64}

\* the operands tried for a move immediate: every combination of a few
\* 16-bit lane patterns (32 bit: the high lanes all zeros or all ones)
LanePatterns == {{}, 0..15, {0}, {15}, {2, 4, 5, 9, 12}, 0..7, 1..15, 4..11}
LaneAt(pat, i) == {b + 16 * i : b \in pat}
MovOperands64 ==
    {LaneAt(q[1], 0) \cup LaneAt(q[2], 1) \cup LaneAt(q[3], 2)
        \cup LaneAt(q[4], 3) :
        q \in LanePatterns \X LanePatterns \X {{}, 0..15, {0}, 0..7}
              \X {{}, 0..15, 0..7}}
MovOperands32 ==
    {LaneAt(q[1], 0) \cup LaneAt(q[2], 1) \cup q[3] :
        q \in LanePatterns \X LanePatterns \X {{}, 32..63, {32}}}

MovCalls ==
    {[start |-> S_MOV32, args |-> <<l>>] : l \in MovOperands32}
    \cup {[start |-> S_MOV64, args |-> <<l>>] : l \in MovOperands64}

\* the first and only dasm_put of the session
PutOne(call) == calls = <<>> /\ Put(call)

NextNsr ==
    \/ \E call \in NsrCalls : PutOne(call)
    \/ Link
    \/ Encode

SpecNsr == Init /\ [][NextNsr]_vars

NextMov ==
    \/ \E call \in MovCalls : PutOne(call)
    \/ Link
    \/ Encode

SpecMov == Init /\ [][NextMov]_vars

\* displacements DASM_EXTERN may yield: for a signed field of k bits scaled
\* by 2^j the largest one, the first one beyond it, and values around them
\* the operands tried for the floating-point immediates: a sign, an
\* exponent, the top four fraction bits and some lower fraction bits
FpExponents == {0, 512, 1019, 1020, 1021, 1023, 1024, 1025, 1027, 1028, 2047}
FpOperands ==
    {{i + 52 : i \in BitsOfW(q[2], 11)} \cup {i + 48 : i \in BitsOfW(q[3], 4)}
        \cup q[1] \cup q[4] :
        q \in {{}, {63}} \X FpExponents \X {0, 5, 15} \X {{}, {0}, {47}, {20, 21}}}

\* the address offsets tried for ldr x0, [x1, #imm]
AddrOperands ==
    {LongOf(n) : n \in {-4096, -300, -257, -256, -255, -8, -1, 0, 1, 7, 8, 16,
                         248, 255, 256, 257, 264, 4095, 4096, 32752, 32760,
                         32761, 32764, 32768, 32776, 65520, 65536, 70000}}

ImmCalls ==
    {[start |-> st, args |-> <<l>>] : st \in {S_A2HFP, S_8FP}, l \in FpOperands}
    \cup {[start |-> S_ADDROFF, args |-> <<l>>] : l \in AddrOperands}

NextImm ==
    \/ \E call \in ImmCalls : PutOne(call)
    \/ Link
    \/ Encode

SpecImm == Init /\ [][NextImm]_vars

\* the caller asks for a PC label's offset, at any point of the session
GetPcLabel(pc) ==
    /\ got' = [pc |-> pc, ret |-> dasm_getpclabel(D, pc)]
    /\ UNCHANGED <<D, phase, calls, linked, encoded, first, tables, setups, heap,
                   steps, cc>>

\* sessions with PC labels, alignment and a second section; the last
\* template defines a PC label and then fails unless local label 1 exists
PcCalls ==
    {[start |-> st, args |-> <<LongOf(pc)>>] :
        st \in {S_PCREF, S_PCDEF, S_PCDEFBWD}, pc \in 0..(MaxPc - 1)}
    \cup {[start |-> st, args |-> <<>>] : st \in {S_L1, S_ALIGN, S_SEC1}}

NextPc ==
    \/ \E call \in PcCalls : Put(call)
    \/ Link
    \/ Encode
    \/ \E pc \in 0..MaxPc : GetPcLabel(pc)

SpecPc == Init /\ [][NextPc]_vars

\* Another thread creates a context of its own: its dasm_init reaches
\* generatensrmap, which refills the global tables and sorts them again
OtherInitEnters ==
    /\ tables = "built"
    /\ tables' = "writing"
    /\ UNCHANGED <<D, phase, calls, linked, encoded, first, got, setups, heap,
                   steps, cc>>

\* the other thread's generatensrmap has sorted both tables
OtherInitReturns ==
    /\ tables = "writing"
    /\ tables' = "built"
    /\ UNCHANGED <<D, phase, calls, linked, encoded, first, got, setups, heap,
                   steps, cc>>

\* the immediates this thread assembles meanwhile: bitmask immediates,
\* single-lane values and values with no encoding
SharedOperands ==
    {{0}, 0..7, {0, 2, 4, 6, 8, 10, 12, 14, 16, 18, 20, 22, 24, 26, 28, 30},
     16..31, 0..30, {0, 3}, {5, 17, 20}}
    \cup {32..63, 0..47, {0, 40}}

SharedCalls ==
    {[start |-> st, args |-> <<l>>] :
        st \in {S_NSR32, S_NSR64, S_MOV32, S_MOV64}, l \in SharedOperands}

NextShared ==
    \/ \E call \in SharedCalls : PutOne(call)
    \/ Link
    \/ Encode
    \/ OtherInitEnters
    \/ OtherInitReturns

SpecShared == Init /\ [][NextShared]_vars

\* a caller that emits immediates and, after one that does not fit, emits
\* the same instruction again with another operand
RetryCalls ==
    {[start |-> st, args |-> <<l>>] :
        st \in {S_NSR32, S_MOV32}, l \in {{0}, 0..7, {0, 3}, {5, 17, 20}}}
    \cup {[start |-> st, args |-> <<l>>] :
            st \in {S_A2HFP, S_8FP}, l \in {{62}, 52..61, {61}, {}}}

NextRetry ==
    \/ \E call \in RetryCalls : Put(call)
    \/ Link
    \/ Encode

SpecRetry == Init /\ [][NextRetry]_vars

\* how many dasm_put calls a session of a reused context makes, and how
\* often the context is set up again
MaxSessionPuts == 2
MaxSetups == 1

\* the caller starts a new session on the same context
Setup ==
    /\ setups < MaxSetups
    /\ D' = dasm_setup_again(D)
    /\ calls' = <<>>
    /\ phase' = "put"
    /\ linked' = NoLink
    /\ encoded' = NoEncode
    /\ first' = NoFirst
    /\ got' = NoQuery
    /\ setups' = setups + 1
    /\ steps' = <<>>
    /\ UNCHANGED <<tables, heap, cc>>

\* a dasm_put of one of these sessions
PutSession(call) ==
    /\ Len(calls) < MaxSessionPuts
    /\ Put(call)

ResetCalls ==
    {[start |-> st, args |-> <<>>] :
        st \in {S_FWD, S_L1, S_BWD, S_GREF, S_GDEF, S_SEC1}}
    \cup {[start |-> st, args |-> <<LongOf(0)>>] : st \in {S_PCREF, S_PCDEF}}

NextReset ==
    \/ \E call \in ResetCalls : PutSession(call)
    \/ Link
    \/ Encode
    \/ Setup

SpecReset == Init /\ [][NextReset]_vars

\* long sessions: blocks of forward branches, their label, a second section
MaxGrowPuts == 4

GrowCalls == {[start |-> st, args |-> <<>>] : st \in {S_BIG, S_L1, S_SEC1}}

PutMany(call) == Len(calls) < MaxGrowPuts /\ PutCall(call)

NextGrow ==
    \/ \E call \in GrowCalls : PutMany(call)
    \/ Link
    \/ Encode

SpecGrow == Init /\ [][NextGrow]_vars

\* sessions of up to MaxGrowPuts short calls with labels and references of
\* every kind, in two sections
ChainCalls ==
    {[start |-> st, args |-> <<>>] :
        st \in {S_FWD, S_L1, S_BWD, S_GREF, S_GDEF, S_SEC1}}
    \cup {[start |-> st, args |-> <<LongOf(0)>>] : st \in {S_PCREF, S_PCDEF}}

NextChain ==
    \/ \E call \in ChainCalls : PutMany(call)
    \/ Link
    \/ Encode

SpecChain == Init /\ [][NextChain]_vars

\* Sessions that reference the global labels 0 and 10 and may define
\* global label 0
GlobalCalls ==
    {[start |-> st, args |-> <<>>] :
        st \in {S_RET, S_GREF, S_GREF10, S_GDEF, S_SEC1}}

NextGlobal ==
    \/ \E call \in GlobalCalls : PutMany(call)
    \/ Link
    \/ Encode

SpecGlobal == Init /\ [][NextGlobal]_vars

\* Sessions with references to and definitions of the local labels 1 and
\* 2 in two sections, and dasm_checkstep between the dasm_put calls
MaxSteps == 2

CheckStep(secmatch) ==
    /\ phase = "put"
    /\ Len(steps) < MaxSteps
    /\ D' = dasm_checkstep(D, secmatch)
    /\ steps' = Append(steps, [at |-> Len(calls), secmatch |-> secmatch,
                               was |-> D.status, ret |-> D'.status])
    /\ got' = NoQuery
    /\ UNCHANGED <<phase, calls, linked, encoded, first, tables, setups,
                   heap, cc>>

StepCalls ==
    {[start |-> st, args |-> <<>>] :
        st \in {S_FWD, S_FWD2, S_L1, S_BWD, S_SEC1}}

NextStep ==
    \/ \E call \in StepCalls : Put(call)
    \/ \E secmatch \in -1..(MaxSection - 1) : CheckStep(secmatch)

SpecStep == Init /\ [][NextStep]_vars

\* Sessions that emit one bitfield insert with a run-time lsb and width
BfiCalls ==
    {[start |-> S_BFI32, args |-> <<LongOf(lsb), LongOf(n)>>] :
        lsb \in -1..32, n \in -1..34}
    \cup {[start |-> S_BFI64, args |-> <<LongOf(lsb), LongOf(n)>>] :
            lsb \in {-1, 0, 1, 31, 32, 33, 62, 63, 64}, n \in -1..66}

NextBfi == \E call \in BfiCalls : PutOne(call)

SpecBfi == Init /\ [][NextBfi]_vars

----------------------------------------------------------------------------
(* The ahead-of-time compilers: compile() of compiler-x64.c, compiler-x86.c *)
(* and the ARM variant, which differ only in the instructions printed      *)

STACKSIZE == 100
MaxText == 5

\* stack_push(p, x): the value returned and the stack after
stack_push(p, x) ==
    IF Len(p) = STACKSIZE THEN [ret |-> -1, p |-> p]
    ELSE [ret |-> 0, p |-> Append(p, x)]

\* stack_pop(p, &x): the value returned, the stack after and *x
stack_pop(p, x) ==
    IF Len(p) = 0 THEN [ret |-> -1, p |-> p, x |-> x]
    ELSE [ret |-> 0, p |-> SubSeq(p, 1, Len(p) - 1), x |-> p[Len(p)]]

\* what compile prints for a bracket: the jump and the label definition
Jump(kind, n, at) == [k |-> "jump", lab |-> <<kind, n>>, at |-> at]
Label(kind, n, at) == [k |-> "def", lab |-> <<kind, n>>, at |-> at]

\* one iteration of compile's loop over the text
CompileChar(c) ==
    LET ch == c.text[c.i] IN
    IF ch = "["
    THEN LET r == stack_push(c.stack, c.num) IN
         IF r.ret = 0
         THEN [c EXCEPT !.stack = r.p,
                        !.out = c.out \o <<Jump("end", c.num, c.i),
                                           Label("start", c.num, c.i)>>,
                        !.num = c.num + 1,
                        !.i = c.i + 1]
         ELSE [c EXCEPT !.state = "err"]
    ELSE IF ch = "]"
    THEN LET r == stack_pop(c.stack, 0) IN
         IF r.ret = 0
         THEN [c EXCEPT !.stack = r.p,
                        !.out = c.out \o <<Jump("start", r.x, c.i),
                                           Label("end", r.x, c.i)>>,
                        !.i = c.i + 1]
         ELSE [c EXCEPT !.state = "err"]
    ELSE [c EXCEPT !.i = c.i + 1]

\* the loop body for the next character of the text
CompileStep ==
    /\ cc.state = "run"
    /\ cc.i <= Len(cc.text)
    /\ cc' = CompileChar(cc)
    /\ UNCHANGED <<D, phase, calls, linked, encoded, first, got, tables,
                   setups, heap, steps>>

\* text_body[i] == '\0': the loop ends and the epilogue is printed
CompileEnd ==
    /\ cc.state = "run"
    /\ cc.i > Len(cc.text)
    /\ cc' = [cc EXCEPT !.state = "done"]
    /\ UNCHANGED <<D, phase, calls, linked, encoded, first, got, tables,
                   setups, heap, steps>>

\* the source texts: every text of up to MaxText characters over `[`, `]`
\* and one other character, a nest of STACKSIZE brackets, closed, and a nest
\* one deeper
BfChars == {"[", "]", "+"}
ShortTexts == UNION {[1..n -> BfChars] : n \in 0..MaxText}
FullNest == [i \in 1..(2 * STACKSIZE) |-> IF i <= STACKSIZE THEN "[" ELSE "]"]
DeepNest == [i \in 1..(STACKSIZE + 1) |-> "["]
Texts == ShortTexts \cup {FullNest, DeepNest}

InitCompile ==
    /\ D = dasm_setup
    /\ phase = "put"
    /\ calls = <<>>
    /\ linked = NoLink
    /\ encoded = NoEncode
    /\ first = NoFirst
    /\ got = NoQuery
    /\ tables = "built"
    /\ setups = 0
    /\ heap = dasm_init_sections
    /\ steps = <<>>
    /\ \E t \in Texts : cc = [NoCompile EXCEPT !.text = t, !.state = "run"]

NextCompile == CompileStep \/ CompileEnd

SpecCompile == InitCompile /\ [][NextCompile]_vars

RelFields == {<<21, 12>>, <<21, 0>>, <<14, 2>>, <<19, 2>>, <<26, 2>>}
MaxDisp(k, j) == j..(j + k - 2)
BeyondDisp(k, j) == {j + k - 1}
RelOperands ==
    {MaxDisp(f[1], f[2]) : f \in RelFields}
    \cup {BeyondDisp(f[1], f[2]) : f \in RelFields}
    \cup {MaxDisp(f[1], f[2]) \cup {0} : f \in RelFields}
    \cup {MaxDisp(f[1], f[2]) \ {f[2]} : f \in RelFields}
    \cup {LongOf(x) : x \in {0, 1, 2, 3, 4, 8, 2048, 4095, 4096, -4, -1,
                             -4096, -32768, -32764, -1048576, -1048572}}

ExtCalls ==
    {[start |-> st, args |-> <<>>] :
        st \in {S_EXTPAGE, S_EXTBYTE, S_EXTW14, S_EXTW19, S_EXTW26}}

NextRel ==
    \/ \E call \in ExtCalls : PutOne(call)
    \/ Link
    \/ \E n \in RelOperands : EncodeWith(n)

SpecRel == Init /\ [][NextRel]_vars

----------------------------------------------------------------------------
(* What the calls mean: the items the session emitted, laid out section by *)
(* section.  This is the assembler's contract, written from the calls and  *)
(* the action list alone; the claims compare the three passes against it.  *)

NoLab == <<"none", 0>>
Item(k, lab, dir, m) == [k |-> k, lab |-> lab, dir |-> dir, m |-> m]

\* the label a REL_LG / LABEL_LG word names: local 1..9 or global 0..
LgLabelOf(v) == IF v < 10 THEN <<"L", v>>
                ELSE IF v < 20 THEN <<"L", v - 10>>
                ELSE <<"G", v - 20>>

\* the items of one call, from action list index p with arguments ap
RECURSIVE CallItems(_, _)
CallItems(p, ap) ==
    LET ins == AL(p)
        a == ins[1]
        v == ins[2] % 2048
    IN  IF a >= DASM__MAX
        THEN <<Item("ins", NoLab, "", 0)>> \o CallItems(p + 1, ap)
        ELSE IF a = DASM_STOP \/ a = DASM_SECTION THEN <<>>
        ELSE IF a = DASM_ESC
        THEN <<Item("ins", NoLab, "", 0)>> \o CallItems(p + 2, ap)
        ELSE IF a = DASM_ALIGN
        THEN <<Item("align", NoLab, "", ins[2] % 256)>> \o CallItems(p + 1, ap)
        ELSE IF a = DASM_REL_LG
        THEN <<Item("ref", LgLabelOf(v), IF v < 10 THEN "fwd" ELSE "any", 0)>>
             \o CallItems(p + 1, ap)
        ELSE IF a = DASM_LABEL_LG
        THEN <<Item("label", LgLabelOf(v), "", 0)>> \o CallItems(p + 1, ap)
        ELSE IF a = DASM_REL_PC
        THEN <<Item("ref", <<"PC", IntOf(Head(ap))>>, "any", 0)>>
             \o CallItems(p + 1, Tail(ap))
        ELSE IF a = DASM_LABEL_PC
        THEN <<Item("label", <<"PC", IntOf(Head(ap))>>, "", 0)>>
             \o CallItems(p + 1, Tail(ap))
        ELSE IF a >= DASM_REL_PC THEN CallItems(p + 1, Tail(ap))
        ELSE CallItems(p + 1, ap)

\* all items in emission order, each with the section it was emitted into
RECURSIVE Emitted(_, _)
Emitted(cs, i) ==
    IF i > Len(cs) THEN <<>>
    ELSE LET its == CallItems(cs[i].start, cs[i].args) IN
         [j \in 1..Len(its) |->
            [k |-> its[j].k, lab |-> its[j].lab, dir |-> its[j].dir,
             m |-> its[j].m, sec |-> cs[i].sec]]
         \o Emitted(cs, i + 1)

\* the byte address of every item: sections in declared order, each padded
\* at an alignment directive to the next multiple of mask + 1
AlignUp(cur, m) == ((cur + m) \div (m + 1)) * (m + 1)

RECURSIVE Layout(_, _, _, _, _, _)
Layout(E, s, e, cur, acc, base) ==
    IF s >= MaxSection THEN [addr |-> acc, base |-> base, total |-> cur]
    ELSE IF e > Len(E)
         THEN Layout(E, s + 1, 1, cur, acc, ((s + 1) :> cur) @@ base)
    ELSE IF E[e].sec # s THEN Layout(E, s, e + 1, cur, acc, base)
    ELSE IF E[e].k = "ins"
         THEN Layout(E, s, e + 1, cur + 4, (e :> cur) @@ acc, base)
    ELSE IF E[e].k = "align"
         THEN Layout(E, s, e + 1, AlignUp(cur, E[e].m), (e :> cur) @@ acc, base)
    ELSE IF E[e].k = "label"
         THEN Layout(E, s, e + 1, cur, (e :> cur) @@ acc, base)
    ELSE Layout(E, s, e + 1, cur, (e :> (cur - 4)) @@ acc, base)

\* the emission indexes of the references, in output order
RECURSIVE RefOrder(_, _, _)
RefOrder(E, s, e) ==
    IF s >= MaxSection THEN <<>>
    ELSE IF e > Len(E) THEN RefOrder(E, s + 1, 1)
    ELSE IF E[e].sec = s /\ E[e].k = "ref" THEN <<e>> \o RefOrder(E, s, e + 1)
    ELSE RefOrder(E, s, e + 1)

\* the definition a reference denotes: for a forward local reference the
\* first definition emitted after it; otherwise the latest definition
\* emitted before it, or failing that the first one after it; 0 if none
DefsOf(E, lab) == {d \in 1..Len(E) : E[d].k = "label" /\ E[d].lab = lab}
MinOf(S) == CHOOSE x \in S : \A y \in S : x <= y
MaxOf(S) == CHOOSE x \in S : \A y \in S : x >= y
Denotes(E, e) ==
    LET before == {d \in DefsOf(E, E[e].lab) : d < e}
        after == {d \in DefsOf(E, E[e].lab) : d > e}
    IN  IF E[e].dir # "fwd" /\ before # {} THEN MaxOf(before)
        ELSE IF after # {} THEN MinOf(after)
        ELSE 0

\* the session's items, layout and references
SessionItems == Emitted(calls, 1)
SessionLayout == Layout(SessionItems, 0, 1, 0, <<>>, (0 :> 0))
SessionRefs == RefOrder(SessionItems, 0, 1)

\* every call so far returned without recording an error
AllPutsOk == \A i \in 1..Len(calls) : calls[i].ok

----------------------------------------------------------------------------
(* Claims                                                                  *)

\* the k-th relocation patched, the reference it belongs to and the
\* definition that reference denotes
PatchRef(k) == SessionRefs[k]
PatchDef(k) == Denotes(SessionItems, PatchRef(k))
Encoded == phase = "encoded" /\ AllPutsOk

\* C1: for every label reference whose label is defined in the session, the
\* displacement dasm_encode patches equals the label's final byte offset
\* minus the byte offset of the instruction word being patched.
C1_DisplacementIsLabelMinusSite ==
    Encoded =>
        LET E == SessionItems
            R == RefOrder(E, 0, 1)
            L == Layout(E, 0, 1, 0, <<>>, (0 :> 0))
        IN  \A k \in 1..Len(encoded.patches) :
                LET d == Denotes(E, R[k]) IN
                d # 0 => encoded.patches[k].n = LongOf(L.addr[d] - L.addr[R[k]])

\* C1 witness: a forward branch to local label 1 defined three instructions
\* later in the same section has been patched with displacement 12.
C1_Witness ==
    /\ Encoded
    /\ encoded.status = DASM_S_OK
    /\ \E k \in 1..Len(encoded.patches) :
        /\ SessionItems[PatchRef(k)].dir = "fwd"
        /\ PatchDef(k) # 0
        /\ SessionItems[PatchDef(k)].sec = SessionItems[PatchRef(k)].sec
        /\ encoded.patches[k].n = LongOf(12)

\* the final size of section s and an item's offset inside its section
SecSizeIn(L, s) == L.base[s + 1] - L.base[s]
RECURSIVE SecBaseIn(_, _)
SecBaseIn(L, s) == IF s = 0 THEN 0 ELSE SecBaseIn(L, s - 1) + SecSizeIn(L, s - 1)
LocalOfsIn(E, L, e) == L.addr[e] - L.base[E[e].sec]
SecBase(s) == SecBaseIn(SessionLayout, s)
CrossSection(k) ==
    /\ PatchDef(k) # 0
    /\ SessionItems[PatchRef(k)].lab[1] = "G"
    /\ SessionItems[PatchDef(k)].sec # SessionItems[PatchRef(k)].sec

\* C2: a site in one section referencing a global label defined in another
\* is patched with (base of the target section + the label's offset in it)
\* minus (base of the site's section + the site's offset in it), the base of
\* section k being the sum of the final sizes of sections 0..k-1.
C2_CrossSectionDisplacement ==
    Encoded =>
        LET E == SessionItems
            R == RefOrder(E, 0, 1)
            L == Layout(E, 0, 1, 0, <<>>, (0 :> 0))
        IN  \A k \in 1..Len(encoded.patches) :
                LET d == Denotes(E, R[k]) IN
                (d # 0 /\ E[R[k]].lab[1] = "G" /\ E[d].sec # E[R[k]].sec) =>
                    encoded.patches[k].n =
                        LongOf((SecBaseIn(L, E[d].sec) + LocalOfsIn(E, L, d))
                               - (SecBaseIn(L, E[R[k]].sec)
                                  + LocalOfsIn(E, L, R[k])))

\* C2 witness: a site in section 0 referencing the global label defined,
\* after alignment padding, in section 1 has been patched.
C2_Witness ==
    /\ Encoded
    /\ encoded.status = DASM_S_OK
    /\ \E k \in 1..Len(encoded.patches) :
        /\ CrossSection(k)
        /\ SessionItems[PatchRef(k)].sec = 0
        /\ SessionItems[PatchDef(k)].sec = 1
        /\ SecBase(1) > 0
        /\ IntOf(encoded.patches[k].n) > 4

\* patches k1 and k2 belong to references to the same definition, k1 emitted
\* before it and k2 after it
FwdBwdPair(k1, k2) ==
    /\ PatchDef(k1) # 0
    /\ PatchDef(k1) = PatchDef(k2)
    /\ PatchRef(k1) < PatchDef(k1)
    /\ PatchRef(k2) > PatchDef(k2)

\* C3: a reference emitted before a label's definition and one emitted after
\* it point, after dasm_link, at the same final byte offset of the label, so
\* site offset + displacement is the same for both.
C3_ForwardBackwardSameOffset ==
    Encoded =>
        LET E == SessionItems
            R == RefOrder(E, 0, 1)
            L == Layout(E, 0, 1, 0, <<>>, (0 :> 0))
            P == encoded.patches
        IN  \A k1, k2 \in 1..Len(P) :
                LET d == Denotes(E, R[k1]) IN
                (d # 0 /\ d = Denotes(E, R[k2]) /\ R[k1] < d /\ R[k2] > d) =>
                    /\ P[k1].target = P[k2].target
                    /\ D.buf[P[k1].target] = L.addr[d]
                    /\ P[k1].at + IntOf(P[k1].n) = P[k2].at + IntOf(P[k2].n)

\* C3 witness: a label with one patched reference on each side of its
\* definition, for a local, a global and a PC label.
C3_WitnessKind(kind) ==
    /\ Encoded
    /\ encoded.status = DASM_S_OK
    /\ \E k1, k2 \in 1..Len(encoded.patches) :
        /\ FwdBwdPair(k1, k2)
        /\ SessionItems[PatchRef(k1)].lab[1] = kind
C3_Witness == C3_WitnessKind("L")
C3_WitnessGlobal == C3_WitnessKind("G")
C3_WitnessPc == C3_WitnessKind("PC")

\* C4: after successful dasm_put calls, dasm_link's total is the size of the
\* laid-out code, and a dasm_encode that walks all sections writes exactly
\* that many bytes and does not return DASM_S_PHASE.
C4_EncodedSizeIsLinkedSize ==
    /\ (phase # "put" /\ linked.status = DASM_S_OK) =>
            linked.sz = SessionLayout.total
    /\ (Encoded /\ encoded.status \in {DASM_S_OK, DASM_S_PHASE}) =>
            /\ 4 * Len(encoded.out) = linked.sz
            /\ encoded.status = DASM_S_OK

\* C4 witness: code with alignment padding in a second section was encoded.
C4_Witness ==
    /\ Encoded
    /\ encoded.status = DASM_S_OK
    /\ \E i \in 1..Len(SessionItems) :
        SessionItems[i].k = "align" /\ SessionItems[i].sec = 1
    /\ \E i \in 1..Len(encoded.out) : encoded.out[i] = AlignFiller
    /\ SecBase(1) > 0

\* the state the dasm_put calls made so far produce from a fresh set-up
RECURSIVE Replay(_, _)
Replay(cs, i) ==
    IF i = 0 THEN dasm_setup
    ELSE dasm_put(Replay(cs, i - 1), cs[i].start, cs[i].args, SortedView)

\* the local labels with unresolved forward references when dasm_link runs
UndefLocals == {k \in 1..9 : D.lglabels[k] > 0}

\* C6: if a local label has been referenced forward and is never defined by
\* the time dasm_link is called, dasm_link returns an undefined-label status
\* tagged with that label's index, and no displacement is patched for those
\* references.
C6_UndefinedLocalReportedByLink ==
    (phase # "put" /\ AllPutsOk /\ UndefLocals # {}) =>
        /\ \E k \in UndefLocals : linked.status = BitOr(DASM_S_UNDEF_LG, k)
        /\ phase = "encoded" =>
            \A k \in 1..Len(encoded.patches) :
                ~(SessionItems[PatchRef(k)].lab[1] = "L" /\ PatchDef(k) = 0)

\* the PC labels referenced by some dasm_put and defined by none
PcMentionedIn(E, kind) ==
    {E[i].lab[2] : i \in {j \in 1..Len(E) : E[j].k = kind /\ E[j].lab[1] = "PC"}}
UndefPcs ==
    LET E == SessionItems IN PcMentionedIn(E, "ref") \ PcMentionedIn(E, "label")
IsUndefPcStatus(st) == st \div 16777216 = DASM_S_UNDEF_PC \div 16777216

\* C7 as stated: if any PC label has been referenced but never defined,
\* dasm_link returns DASM_S_UNDEF_PC or'ed with the lowest such index and
\* total size 0, leaving the buffers unmodified.
C7_UndefPcAlwaysReported ==
    (phase # "put" /\ UndefPcs # {}) =>
        /\ linked.status = BitOr(DASM_S_UNDEF_PC, MinOf(UndefPcs))
        /\ linked.sz = 0
        /\ D.buf = Replay(calls, Len(calls)).buf

\* C7 amended: the same, when no earlier dasm_put recorded an error (the
\* status is DASM_S_OK when dasm_link is entered); and if every referenced
\* PC label is defined the status is not an undefined-PC-label status.
C7_UndefPcReportedWhenStatusOk ==
    phase # "put" =>
        LET U == UndefPcs IN
        /\ (AllPutsOk /\ U # {}) =>
            /\ linked.status = BitOr(DASM_S_UNDEF_PC, MinOf(U))
            /\ linked.sz = 0
            /\ D.buf = Replay(calls, Len(calls)).buf
        /\ U = {} => ~IsUndefPcStatus(linked.status)

\* C7 witness: dasm_link ran with PC labels 0 and 1 both referenced and
\* undefined and returned DASM_S_UNDEF_PC|0.
C7_Witness ==
    /\ phase = "linked"
    /\ AllPutsOk
    /\ UndefPcs = {0, 1}
    /\ linked.status = DASM_S_UNDEF_PC

\* a second link + encode has completed on the context
Rerun == phase = "encoded" /\ first # NoFirst /\ AllPutsOk

LabelsUnshifted ==
    LET E == SessionItems
        L == Layout(E, 0, 1, 0, <<>>, (0 :> 0))
    IN  \A d \in 1..Len(E) :
            E[d].k = "label" =>
                /\ SecBaseIn(L, E[d].sec) = 0
                /\ \A a \in 1..(d - 1) :
                    ~(E[a].k = "align" /\ E[a].sec = E[d].sec)

----------------------------------------------------------------------------
(* Claims about the immediate encoders and the relocation modes            *)

\* the architecture's DecodeBitMasks(N, imms, immr) for a w-bit operand;
\* {-1} stands for a reserved encoding
Reserved == {-1}
HighestSetBit(x) == CHOOSE i \in 0..6 : Pow2(i) <= x /\ x < Pow2(i + 1)
DecodeBitMasks(N, imms, immr, w) ==
    LET combined == N * 64 + (63 - imms) IN
    IF combined < 2 \/ (N = 1 /\ w = 32) THEN Reserved
    ELSE LET len == HighestSetBit(combined)
             esize == Pow2(len)
             S == imms % esize
             R == immr % esize
         IN  IF S = esize - 1 THEN Reserved
             ELSE {b \in 0..(w - 1) :
                     \E i \in 0..S : (b % esize) = (i + esize - R) % esize}

\* the N, immr and imms fields of an instruction word given as an int
FieldN(x) == (x \div Pow2(22)) % 2
FieldImmr(x) == (x \div Pow2(16)) % 64
FieldImms(x) == (x \div Pow2(10)) % 64
DecodeLogical(x, w) == DecodeBitMasks(FieldN(x), FieldImms(x), FieldImmr(x), w)

\* the session's single call, its operand and what dasm_put stored for it
TheCall == calls[1]
Operand == TheCall.args[1]
Stored == D.buf[1]
\* the action list index of the call's immediate or relocation action, and
\* of the instruction word it belongs to
ActionAt == IF TheCall.start = S_MOV32 THEN TheCall.start + 2
            ELSE TheCall.start + 1
Template == WordBits(AL(ActionAt - 1))
Rejected(st) ==
    /\ ~TheCall.ok
    /\ D.status = BitOr(st, ActionAt)
    /\ D.sections[0] = [pos |-> 0, ofs |-> 0]
    /\ phase # "put" => (linked.status = D.status /\ linked.sz = 0)
    /\ phase # "encoded"

NsrCase == calls # <<>> /\ TheCall.start \in {S_NSR32, S_NSR64}
NsrWidth == IF TheCall.start = S_NSR64 THEN 64 ELSE 32
NsrBitmasks == IF TheCall.start = S_NSR64 THEN Bitmask64 ELSE Bitmask32

\* C5: DASM_IMMNSR accepts exactly the rotated, replicated runs of ones of
\* the operand width; the field stored for an accepted value decodes by
\* the architecture's bitmask rule to the value; every other value is
\* rejected with DASM_S_RANGE_I | the action's offset and nothing is encoded.
C5_BitmaskImmediateExact ==
    NsrCase =>
        /\ TheCall.ok <=> Operand \in NsrBitmasks
        /\ TheCall.ok =>
            /\ D.status = DASM_S_OK
            /\ DecodeLogical(Stored, NsrWidth) = Operand
            /\ phase = "encoded" =>
                /\ encoded.status = DASM_S_OK
                /\ encoded.out = <<Template \cup BitsOf(Stored)>>
        /\ ~TheCall.ok => Rejected(DASM_S_RANGE_I)

\* C5 witness: the 64-bit operand 0x8000000000000003 (three ones rotated
\* across the top of a 64-bit element) was accepted and encoded.
C5_Witness ==
    /\ NsrCase
    /\ phase = "encoded"
    /\ TheCall.start = S_NSR64
    /\ Operand = {0, 1, 63}
    /\ encoded.status = DASM_S_OK

\* C5 witness of the rejecting side: all-ones was refused for a 32-bit operand.
C5_WitnessRejected ==
    /\ NsrCase
    /\ TheCall.start = S_NSR32
    /\ Operand = 0..31
    /\ D.status = BitOr(DASM_S_RANGE_I, S_NSR32 + 1)

MovCase == calls # <<>> /\ TheCall.start \in {S_MOV32, S_MOV64}
MovWidth == IF TheCall.start = S_MOV64 THEN 64 ELSE 32
MovLanes == MovWidth \div 16
MovBitmasks == IF TheCall.start = S_MOV64 THEN Bitmask64 ELSE Bitmask32

\* exactly one of the operand's aligned 16-bit lanes is non-zero and every
\* other bit of the 64-bit value is zero
OneLane(v) ==
    \E i \in 0..(MovLanes - 1) :
        (v \cap LaneMask(i)) # {} /\ (v \ LaneMask(i)) = {}

\* the opcode bits dasm_put OR-ed in, and the value each form denotes
MovOpcode == Stored \div Pow2(23)
OpMovz == 165       \* 0x52800000 >> 23
OpMovn == 37        \* 0x12800000 >> 23
OpOrr == 100        \* 0x32000000 >> 23
DecodeMovz(x) == LaneAt(BitsOfW((x \div 32) % 65536, 16), (x \div Pow2(21)) % 4)
LowW(v) == v \cap (0..(MovWidth - 1))
MovEncoded ==
    /\ TheCall.ok
    /\ D.status = DASM_S_OK
    /\ phase = "encoded" =>
        /\ encoded.status = DASM_S_OK
        /\ encoded.out = <<Template \cup BitsOf(Stored)>>
AsMovz == MovEncoded /\ MovOpcode = OpMovz /\ DecodeMovz(Stored) = Operand
AsMovn == /\ MovEncoded
          /\ MovOpcode = OpMovn
          /\ LowW(NotLong(DecodeMovz(Stored))) = LowW(Operand)
AsOrr == /\ MovEncoded
         /\ MovOpcode = OpOrr
         /\ DecodeLogical(Stored, MovWidth) = Operand

\* C10 as stated: a wide move only if exactly one lane is non-zero; else an
\* inverted wide move if the complement has that property (except the
\* excluded 32-bit values); else the bitmask table; else DASM_S_RANGE_I.
C10_MovExactlyOneLane ==
    MovCase =>
        IF OneLane(Operand) THEN AsMovz
        ELSE IF OneLane(NotLong(Operand))
                /\ ~(MovWidth = 32 /\ MovExcluded(Operand)) THEN AsMovn
        ELSE IF Operand \in MovBitmasks THEN AsOrr
        ELSE Rejected(DASM_S_RANGE_I)

\* C10 amended: a wide move if the value is 0 or exactly one lane of it is
\* non-zero and every other bit of the 64-bit argument is zero; else an
\* inverted wide move if the 64-bit complement is 0 or has that property;
\* else the bitmask table; else DASM_S_RANGE_I.  The emitted opcode and
\* field denote the operand on the operand width.
C10_MovZeroOrOneLane ==
    MovCase =>
        IF Operand = {} \/ OneLane(Operand) THEN AsMovz
        ELSE IF NotLong(Operand) = {} \/ OneLane(NotLong(Operand)) THEN AsMovn
        ELSE IF Operand \in MovBitmasks THEN AsOrr
        ELSE Rejected(DASM_S_RANGE_I)

\* C10 witness: a 64-bit operand whose complement has one non-zero lane was
\* encoded as an inverted wide move.
C10_Witness ==
    /\ MovCase
    /\ phase = "encoded"
    /\ TheCall.start = S_MOV64
    /\ OneLane(NotLong(Operand))
    /\ MovOpcode = OpMovn
    /\ encoded.status = DASM_S_OK

\* the relocation field of the session's external reference: a signed
\* field of RelK bits scaled by 2^RelJ
RelCase == phase = "encoded" /\ calls # <<>>
           /\ TheCall.start \in {S_EXTPAGE, S_EXTBYTE, S_EXTW14, S_EXTW19,
                                 S_EXTW26}
RelK == CASE TheCall.start = S_EXTPAGE -> 21 [] TheCall.start = S_EXTBYTE -> 21
          [] TheCall.start = S_EXTW14 -> 14 [] TheCall.start = S_EXTW19 -> 19
          [] OTHER -> 26
RelJ == CASE TheCall.start = S_EXTPAGE -> 12 [] TheCall.start = S_EXTBYTE -> 0
          [] OTHER -> 2
\* where the field's value bits go: immlo at 29..30 and immhi from bit 5
\* (page, byte), or the whole field from bit 5 (bit 0 for the 26-bit form)
RelFieldBits(imm) ==
    IF RelK = 21 THEN {b + 29 : b \in (imm \cap {0, 1})}
                      \cup {b + 3 : b \in (imm \ {0, 1})}
    ELSE IF RelK = 26 THEN imm
    ELSE {b + 5 : b \in imm}
RelRejected == encoded.status = BitOr(DASM_S_RANGE_REL, ActionAt)

\* C9: in each relocation mode the largest positive displacement that meets
\* the mode's alignment is accepted and patched; one unit beyond it, or a
\* displacement violating the alignment rule, gives DASM_S_RANGE_REL | the
\* action's offset.
C9_RelocationBoundary ==
    RelCase =>
        /\ encoded.ext = MaxDisp(RelK, RelJ) =>
            /\ encoded.status = DASM_S_OK
            /\ encoded.out = <<Template \cup RelFieldBits(0..(RelK - 2))>>
        /\ encoded.ext = BeyondDisp(RelK, RelJ) => RelRejected
        /\ (encoded.ext \cap (0..(RelJ - 1))) # {} => RelRejected

\* C9 witness: the page-relative maximum 0xfffff000 was patched.
C9_Witness ==
    /\ RelCase
    /\ TheCall.start = S_EXTPAGE
    /\ encoded.ext = 12..31
    /\ encoded.status = DASM_S_OK

----------------------------------------------------------------------------
(* Claims about the remaining immediates                                   *)

FpCase == calls # <<>> /\ TheCall.start \in {S_A2HFP, S_8FP}

\* a double the 8-bit a..h form represents: exponent bits 9..2 all equal to
\* the complement of exponent bit 10, no fraction bit below the top four
FpRepresentable(l) ==
    /\ \A i \in 54..61 : (i \in l) # (62 \in l)
    /\ (l \cap (0..47)) = {}

\* C11: DASM_IMMA2HFP and DASM_IMM8FP accept a 64-bit floating-point bit
\* pattern only when the 8-bit a..h form represents it exactly; every other
\* pattern is rejected with DASM_S_RANGE_I and not encoded with bits dropped.
C11_FpImmediateExact ==
    FpCase =>
        /\ TheCall.ok <=> FpRepresentable(Operand)
        /\ ~TheCall.ok => Rejected(DASM_S_RANGE_I)

AddrCase == calls # <<>> /\ TheCall.start = S_ADDROFF

\* the offsets ldr x0, [x1, #imm] can address: the unscaled signed 9-bit
\* form, or the unsigned 12-bit form scaled by the access size (8 bytes)
AddrInRange(n) ==
    \/ n \in -256..255
    \/ n >= 0 /\ n % Pow2(AddrScale) = 0 /\ n \div Pow2(AddrScale) <= 4095

\* C12: DASM_IMMADDROFF encodes the address offset n only if n is in
\* -256..255 or n is a non-negative multiple of 2^scale with n>>scale <= 4095;
\* any other n raises a range error at the action and is never encoded.
C12_AddrOffsetRangeChecked ==
    AddrCase =>
        /\ TheCall.ok <=> AddrInRange(IntOf(Operand))
        /\ ~TheCall.ok => Rejected(DASM_S_RANGE_I)

\* the offset pass 1 assigns to item d: relative to its section, every
\* alignment directive before it counted with its largest padding
RECURSIVE Estimate(_, _, _)
Estimate(E, d, e) ==
    IF e >= d THEN 0
    ELSE Estimate(E, d, e + 1)
         + (IF E[e].sec # E[d].sec THEN 0
            ELSE IF E[e].k = "ins" THEN 4
            ELSE IF E[e].k = "align" THEN E[e].m
            ELSE 0)

\* what a query for PC label pc is to return in the current state
PcOffset(pc) ==
    LET E == SessionItems
        defs == DefsOf(E, <<"PC", pc>>)
        refd == \E e \in 1..Len(E) : E[e].k = "ref" /\ E[e].lab = <<"PC", pc>>
    IN  IF pc >= MaxPc THEN -2
        ELSE IF defs # {}
        THEN IF phase # "put" /\ linked.status = DASM_S_OK
             THEN Layout(E, 0, 1, 0, <<>>, (0 :> 0)).addr[MaxOf(defs)]
             ELSE Estimate(E, MaxOf(defs), 1)
        ELSE IF refd THEN -1
        ELSE -2

Queried == got # NoQuery

\* C13: dasm_getpclabel(pc) returns the label's byte offset (the pass-1
\* estimate before dasm_link, the final offset after it) if the label has
\* been defined, -1 if it has been referenced but not defined, -2 if it was
\* never referenced or defined or if pc is out of range.
C13_GetPcLabel == Queried => got.ret = PcOffset(got.pc)

\* the same for sessions in which no dasm_put recorded an error
C13_GetPcLabelWhenPutsOk == Queried /\ AllPutsOk => got.ret = PcOffset(got.pc)

\* the state the call leaves when no other thread is running
Alone == dasm_put(dasm_setup, TheCall.start, TheCall.args, SortedView)

\* C14: two contexts used by two threads share no mutable state: whatever
\* the other thread does to its own context, a dasm_put of a bitmask or
\* wide-move immediate on this context accepts and stores what it does when
\* it runs alone, and the lookup tables are never written after they were
\* first built.
C14_ContextsIndependent ==
    /\ tables = "built"
    /\ calls # <<>> =>
            /\ TheCall.ok <=> Alone.status = DASM_S_OK
            /\ D.status = Alone.status
            /\ TheCall.ok => Stored = Alone.buf[1]

----------------------------------------------------------------------------
(* Claims about errors and the life of a context                           *)

SomePutFailed == \E i \in 1..Len(calls) : ~calls[i].ok

\* C15: once a dasm_put has recorded a non-OK status, the status stays
\* non-OK through every later dasm_put, and the next dasm_link returns a
\* non-OK status with total size 0 and leaves every section buffer as the
\* dasm_put calls left it.
C15_ErrorStatusSticks ==
    SomePutFailed =>
        /\ D.status # DASM_S_OK
        /\ phase # "put" =>
                /\ linked.status # DASM_S_OK
                /\ linked.status = D.status
                /\ linked.sz = 0
                /\ D = Replay(calls, Len(calls))
        /\ phase # "encoded"

\* C15 witness: a dasm_put failed, a later dasm_put appended code, and
\* dasm_link has returned the recorded error.
C15_Witness ==
    /\ phase = "linked"
    /\ \E i, j \in 1..Len(calls) : i < j /\ ~calls[i].ok /\ calls[j].ok
    /\ linked.status \div 16777216 = DASM_S_RANGE_LG \div 16777216
    /\ linked.sz = 0

\* a range error followed by the same instruction with a fitting operand
Retried ==
    /\ Len(calls) = 2
    /\ ~calls[1].ok
    /\ calls[2].ok
    /\ calls[2].start = calls[1].start

\* C16: a range error is recoverable by re-emitting: after a dasm_put that
\* recorded a range error, a dasm_put of the same action with an in-range
\* operand followed by dasm_link yields DASM_S_OK, and the encoded output
\* holds the corrected instruction exactly once.
C16_RangeErrorRecoverable ==
    Retried /\ phase # "put" =>
        /\ linked.status = DASM_S_OK
        /\ linked.sz = 4
        /\ phase = "encoded" =>
                /\ encoded.status = DASM_S_OK
                /\ Len(encoded.out) = 1

\* the same calls on a freshly initialised context, linked and encoded
Fresh == Replay(calls, Len(calls))
FreshLink(F) == dasm_link(F)
FreshEncode(L) == dasm_encode(L.D, DASM_EXTERN)

SetUpAgain == setups > 0

\* C17: after dasm_setup the status is OK, the active section is section 0,
\* every label slot is 0 and every section is empty; and the same sequence
\* of dasm_put, dasm_link, dasm_encode yields the same statuses, total size
\* and output bytes after an earlier session on the context as on a freshly
\* initialised context.
C17_SetupResets ==
    SetUpAgain =>
        /\ calls = <<>> =>
                /\ D.status = DASM_S_OK
                /\ D.section = 0
                /\ \A i \in DOMAIN D.lglabels : D.lglabels[i] = 0
                /\ \A i \in DOMAIN D.pclabels : D.pclabels[i] = 0
                /\ \A i \in DOMAIN D.sections :
                        D.sections[i] = [pos |-> DASM_SEC2POS(i), ofs |-> 0]
        /\ LET F == Fresh IN
            /\ phase = "put" =>
                    /\ D.status = F.status
                    /\ D.sections = F.sections
            /\ phase # "put" =>
                    LET L == FreshLink(F) IN
                    /\ linked.status = L.status
                    /\ linked.sz = L.sz
                    /\ phase = "encoded" =>
                            LET E == FreshEncode(L) IN
                            /\ encoded.status = E.status
                            /\ encoded.out = E.out

\* C17 witness: a second session on a context whose buffers still hold
\* words of the earlier session has been encoded, with a patched reference.
C17_Witness ==
    /\ SetUpAgain
    /\ phase = "encoded"
    /\ encoded.status = DASM_S_OK
    /\ Len(encoded.patches) > 0
    /\ \E pos \in DOMAIN D.buf : pos >= D.sections[DASM_POS2SEC(pos)].pos

----------------------------------------------------------------------------
(* Claims about one dasm_put call and about the buffers                    *)

\* What a call starting at action list index p is to process: the number of
\* instruction words (ins), the number of words it stores in the buffer
\* besides the start word (st), the largest alignment padding (pad) and the
\* section it switches to (sec, -1 for none).  The walk ends at the first
\* STOP or SECTION; the word after an ESC is an instruction word.
RECURSIVE Walk(_)
Walk(p) ==
    LET a == AL(p)[1]
        Plus(r, i, t, m) == [ins |-> r.ins + i, st |-> r.st + t,
                             pad |-> r.pad + m, sec |-> r.sec]
    IN  IF a >= DASM__MAX THEN Plus(Walk(p + 1), 1, 0, 0)
        ELSE IF a = DASM_STOP THEN [ins |-> 0, st |-> 0, pad |-> 0, sec |-> -1]
        ELSE IF a = DASM_SECTION
        THEN [ins |-> 0, st |-> 0, pad |-> 0, sec |-> AL(p)[2] % 256]
        ELSE IF a = DASM_ESC THEN Plus(Walk(p + 2), 1, 0, 0)
        ELSE IF a = DASM_REL_EXT THEN Walk(p + 1)
        ELSE IF a = DASM_ALIGN THEN Plus(Walk(p + 1), 0, 1, AL(p)[2] % 256)
        ELSE Plus(Walk(p + 1), 0, 1, 0)

LastCall == calls[Len(calls)]
BeforeLast == Replay(calls, Len(calls) - 1)

\* C18: a dasm_put call processes the action words from its start offset up
\* to the first STOP or SECTION and none after it; the word after an ESC
\* counts as one instruction word and is not read as an action; all words
\* the call appends go to the section active on entry; a SECTION n action
\* makes section n the active section for the calls that follow.
C18_PutStopsAtStopOrSection ==
    phase = "put" /\ calls # <<>> /\ LastCall.ok =>
        LET B == BeforeLast
            s == LastCall.sec
            W == Walk(LastCall.start)
        IN  /\ s = B.section
            /\ D.sections[s].ofs = B.sections[s].ofs + 4 * W.ins + W.pad
            /\ D.sections[s].pos = B.sections[s].pos + 1 + W.st
            /\ \A t \in DOMAIN D.sections :
                    t # s => D.sections[t] = B.sections[t]
            /\ \A pos \in (DOMAIN D.buf) \ (DOMAIN B.buf) :
                    DASM_POS2SEC(pos) = s
            /\ D.section = IF W.sec >= 0 THEN W.sec ELSE s

\* C18 witness: an escaped word, then a call ended by a section switch, then
\* a call that appended to section 1.
C18_Witness ==
    /\ phase = "put"
    /\ Len(calls) = 3
    /\ calls[1].start = S_ESC /\ calls[1].ok
    /\ calls[2].start = S_SEC1 /\ calls[2].ok
    /\ calls[3].sec = 1 /\ calls[3].ok
    /\ D.sections[0].ofs = 8
    /\ D.sections[1].ofs > 0

\* position pos lies inside the live allocation of its section, and the
\* section's rbuf points into that allocation
Allocated(pos) ==
    LET h == heap[DASM_POS2SEC(pos)] IN
    /\ h.buf # 0
    /\ h.rbuf = h.buf
    /\ DASM_POS2IDX(pos) < h.bsize \div 4

\* the positions the label slots hold
PosOf(v) == IF v < 0 THEN -v ELSE v
SlotPositions ==
    {PosOf(D.lglabels[i]) : i \in DOMAIN D.lglabels}
    \cup {PosOf(D.pclabels[i]) : i \in DOMAIN D.pclabels}

\* C19: growth keeps every issued position valid: every position dasm_put
\* has written, and every position a label slot holds, lies inside the
\* allocated capacity of its section and is reached through a pointer into
\* the live allocation, after any number of dasm_put calls of at most
\* DASM_MAXSECPOS positions each.
C19_GrowthKeepsPositions ==
    /\ \A pos \in DOMAIN D.buf : Allocated(pos)
    /\ \A pos \in SlotPositions \ {0} : pos \in DOMAIN D.buf

\* C19 witness: the buffer of section 0 was grown a second time and moved
\* while a chain of forward references ran through it; the label was then
\* defined and every reference patched.
C19_Witness ==
    /\ heap[0].buf = 2
    /\ heap[0].bsize = 512
    /\ phase = "encoded"
    /\ encoded.status = DASM_S_OK
    /\ Len(encoded.patches) >= 3 * (DASM_MAXSECPOS - 1)
    /\ D.lglabels[1] < 0

\* The label definitions and references of one call with the buffer
\* position each is stored at: pos is the next free position
Site(k, lab, dir, pos) == [k |-> k, lab |-> lab, dir |-> dir, pos |-> pos]

RECURSIVE CallSites(_, _, _)
CallSites(p, ap, pos) ==
    LET ins == AL(p)
        a == ins[1]
        v == ins[2] % 2048
    IN  IF a >= DASM__MAX THEN CallSites(p + 1, ap, pos)
        ELSE IF a = DASM_STOP \/ a = DASM_SECTION THEN <<>>
        ELSE IF a = DASM_ESC THEN CallSites(p + 2, ap, pos)
        ELSE IF a = DASM_REL_EXT THEN CallSites(p + 1, ap, pos)
        ELSE IF a = DASM_ALIGN THEN CallSites(p + 1, ap, pos + 1)
        ELSE IF a = DASM_REL_LG
        THEN <<Site("ref", LgLabelOf(v), IF v < 10 THEN "fwd" ELSE "any", pos)>>
             \o CallSites(p + 1, ap, pos + 1)
        ELSE IF a = DASM_LABEL_LG
        THEN <<Site("label", LgLabelOf(v), "", pos)>>
             \o CallSites(p + 1, ap, pos + 1)
        ELSE IF a = DASM_REL_PC
        THEN <<Site("ref", <<"PC", IntOf(Head(ap))>>, "any", pos)>>
             \o CallSites(p + 1, Tail(ap), pos + 1)
        ELSE IF a = DASM_LABEL_PC
        THEN <<Site("label", <<"PC", IntOf(Head(ap))>>, "", pos)>>
             \o CallSites(p + 1, Tail(ap), pos + 1)
        ELSE CallSites(p + 1, Tail(ap), pos + 1)

\* the sites of calls i.., next[s] being the next free position of section s
RECURSIVE SitesFrom(_, _, _)
SitesFrom(cs, i, next) ==
    IF i > Len(cs) THEN <<>>
    ELSE LET s == cs[i].sec IN
         CallSites(cs[i].start, cs[i].args, next[s] + 1)
         \o SitesFrom(cs, i + 1,
                      [next EXCEPT ![s] = next[s] + 1 + Walk(cs[i].start).st])

SessionSites ==
    SitesFrom(calls, 1, [s \in 0..(MaxSection - 1) |-> DASM_SEC2POS(s)])

\* the slot of a label
Labels ==
    {<<"L", i>> : i \in 1..9} \cup {<<"G", g>> : g \in 0..(MaxGlobals - 1)}
    \cup {<<"PC", pc>> : pc \in 0..(MaxPc - 1)}
Slot(lab) ==
    CASE lab[1] = "L" -> D.lglabels[lab[2]]
      [] lab[1] = "G" -> D.lglabels[lab[2] + 10]
      [] lab[1] = "PC" -> D.pclabels[lab[2]]

\* the positions reached from position v through the buffer words, at most
\* fuel of them
RECURSIVE Chain(_, _)
Chain(v, fuel) ==
    IF v <= 0 \/ fuel = 0 THEN <<>> ELSE <<v>> \o Chain(D.buf[v], fuel - 1)

SeqRange(q) == {q[i] : i \in 1..Len(q)}

\* C20: after successful dasm_put calls a label slot is 0 exactly if the
\* label was never referenced nor defined; if negative, its negation is the
\* position of the latest definition; if positive, following it through the
\* buffer words reaches 0 and visits exactly the unresolved reference sites
\* of the label, each once, in whatever sections they lie.  Every site has a
\* position >= 1, and every resolved site holds its definition's position.
C20_LabelSlotsAndChains ==
    phase = "put" /\ AllPutsOk =>
        LET S == SessionSites
            fuel == Len(S) + 1
        IN  /\ \A e \in 1..Len(S) : DASM_POS2IDX(S[e].pos) >= 1
            /\ \A e \in 1..Len(S) :
                    S[e].k = "ref" /\ Denotes(S, e) # 0 =>
                        D.buf[S[e].pos] = S[Denotes(S, e)].pos
            /\ \A lab \in Labels :
                    LET v == Slot(lab)
                        defs == DefsOf(S, lab)
                        open == {e \in 1..Len(S) :
                                    /\ S[e].k = "ref" /\ S[e].lab = lab
                                    /\ Denotes(S, e) = 0}
                        c == Chain(v, fuel)
                    IN  /\ v = 0 <=> ~\E e \in 1..Len(S) : S[e].lab = lab
                        /\ v < 0 => /\ defs # {}
                                     /\ -v = S[MaxOf(defs)].pos
                                     /\ open = {}
                        /\ v > 0 => /\ Len(c) < fuel
                                     /\ Len(c) = Cardinality(open)
                                     /\ SeqRange(c) = {S[e].pos : e \in open}

\* C20 witness: a chain of two references in different sections was
\* collapsed by the definition of its label.
C20_Witness ==
    /\ phase = "put" /\ AllPutsOk
    /\ D.pclabels[0] < 0
    /\ LET S == SessionSites IN
        \E e1, e2 \in 1..Len(S) :
            /\ S[e1].k = "ref" /\ S[e2].k = "ref"
            /\ S[e1].lab = <<"PC", 0>> /\ S[e2].lab = <<"PC", 0>>
            /\ DASM_POS2SEC(S[e1].pos) = 0 /\ DASM_POS2SEC(S[e2].pos) = 1
            /\ D.buf[S[e1].pos] = -D.pclabels[0]
            /\ D.buf[S[e2].pos] = -D.pclabels[0]
            /\ \E d \in 1..Len(S) : S[d].k = "label" /\ d > e1 /\ d > e2

----------------------------------------------------------------------------
(* C21: label offsets and alignment padding agree between pass 2 and 3     *)

\* the words dasm_encode wrote for its i-th alignment directive
PadWords(i) ==
    {encoded.out[j] :
        j \in (encoded.aligns[i].from \div 4 + 1)..(encoded.aligns[i].to \div 4)}

\* C21: the offset dasm_link stored for every label definition is the offset
\* of dasm_encode's write cursor when it reaches that definition; after every
\* alignment directive with mask m the cursor is a multiple of m + 1, the
\* padding written is the padding dasm_link kept (the m bytes of pass 1 less
\* what it took off), and every padding word is 0xe1a00000, never zero.
C21_LabelAndPaddingAgree ==
    phase = "encoded" =>
        /\ \A k \in 1..Len(encoded.labels) :
                encoded.labels[k].ofs = encoded.labels[k].at
        /\ Len(encoded.aligns) <= Len(linked.shrunk)
        /\ \A i \in 1..Len(encoded.aligns) :
                LET a == encoded.aligns[i] IN
                /\ a.to % (a.mask + 1) = 0
                /\ a.to - a.from = a.mask - linked.shrunk[i]
                /\ PadWords(i) \subseteq {AlignFiller}
                /\ {} \notin PadWords(i)

\* C21 witness: in section 1, which starts at byte 4, an alignment to 16 was
\* padded with three filler words and the global label after it was passed
\* at byte 16.
C21_Witness ==
    /\ phase = "encoded"
    /\ encoded.status = DASM_S_OK
    /\ \E i \in 1..Len(encoded.aligns) :
        /\ encoded.aligns[i].from = 4
        /\ encoded.aligns[i].to = 16
        /\ PadWords(i) = {AlignFiller}
    /\ \E k \in 1..Len(encoded.labels) :
        /\ DASM_POS2SEC(encoded.labels[k].pos) = 1
        /\ encoded.labels[k].at = 16

----------------------------------------------------------------------------
(* C22: references to global labels that are never defined                 *)

\* the reference sites of global labels g >= from that no call defines
UndefGlobalSites(from) ==
    LET S == SessionSites IN
    {e \in 1..Len(S) :
        /\ S[e].k = "ref" /\ S[e].lab[1] = "G" /\ S[e].lab[2] >= from
        /\ DefsOf(S, S[e].lab) = {}}
IsUndefLgStatus(st) == st \div 16777216 = DASM_S_UNDEF_LG \div 16777216

\* what the claim requires of the undefined globals numbered from.. : after
\* dasm_link every reference site holds a negative marker, and dasm_encode
\* patches none of them and returns an undefined-label status
UndefGlobalsReported(from) ==
    (phase # "put" /\ AllPutsOk /\ linked.status = DASM_S_OK) =>
        LET S == SessionSites
            U == UndefGlobalSites(from)
        IN  /\ \A e \in U : D.buf[S[e].pos] < 0
            /\ (phase = "encoded" /\ U # {}) =>
                /\ IsUndefLgStatus(encoded.status)
                /\ \A k \in 1..Len(encoded.patches) :
                        encoded.patches[k].site \notin {S[e].pos : e \in U}

\* C22: for every global label index g, 0 <= g < maxgl, that is referenced
\* but never defined, dasm_link replaces every entry of its reference chain
\* with a negative marker and dasm_encode returns DASM_S_UNDEF_LG at the
\* first such reference instead of patching a displacement.
C22_UndefinedGlobalReported == UndefGlobalsReported(0)

\* the same for the global labels dasm_link's loop visits, g >= 10
UndefinedGlobalReportedFrom10 == UndefGlobalsReported(FirstGlobalIdx - 10)

\* dasm_encode stopped at a reference to the undefined global label 10
UndefinedGlobal10Seen ==
    /\ phase = "encoded"
    /\ UndefGlobalSites(FirstGlobalIdx - 10) # {}
    /\ encoded.status = BitOr(DASM_S_UNDEF_LG, S_GREF10 + 1)

----------------------------------------------------------------------------
(* C23: definitions of and references to one local label, interleaved      *)

\* the calls before call i all returned without an error, and one of them
\* is a call with start offset st
EarlierOk(i) == \A j \in 1..(i - 1) : calls[j].ok
Earlier(i, st) == {j \in 1..(i - 1) : calls[j].start = st}

\* every patched reference to a local label went to the definition it
\* denotes
LocalsResolved ==
    (Encoded /\ encoded.status = DASM_S_OK) =>
        LET S == SessionSites IN
        \A k \in 1..Len(encoded.patches) :
            \A e \in 1..Len(S) :
                (S[e].pos = encoded.patches[k].site /\ S[e].lab[1] = "L"
                 /\ Denotes(S, e) # 0) =>
                    encoded.patches[k].target = S[Denotes(S, e)].pos

\* C23: for any interleaving of definitions of, forward references to and
\* backward references to local label 1, each backward reference resolves to
\* the latest definition before it and each forward reference to the first
\* definition after it, and a backward reference is rejected only when no
\* definition precedes it.
C23_LocalLabelInterleaving ==
    /\ LocalsResolved
    /\ \A i \in 1..Len(calls) :
            (calls[i].start = S_BWD /\ EarlierOk(i) /\ Earlier(i, S_L1) # {})
                => calls[i].ok

\* what the backward reference's check tests: the label's slot is negative,
\* which it is when a definition precedes and no forward reference was
\* emitted since the latest one
BackwardRejectedWhenSlotOpen ==
    /\ LocalsResolved
    /\ \A i \in 1..Len(calls) :
            (calls[i].start = S_BWD /\ EarlierOk(i)) =>
                (calls[i].ok <=>
                    /\ Earlier(i, S_L1) # {}
                    /\ \A f \in Earlier(i, S_FWD) :
                            \E d \in Earlier(i, S_L1) : d > f)

----------------------------------------------------------------------------
(* C24: what a dasm_put call that fails a check leaves behind              *)

\* the buffer positions below the committed position of their section
Committed(S) ==
    {p \in DOMAIN S.buf : p < S.sections[DASM_POS2SEC(p)].pos}

\* the step is a dasm_put call that failed a check
FailedPut ==
    /\ Len(calls') = Len(calls) + 1
    /\ ~calls'[Len(calls')].ok

\* C24: a dasm_put call in which a check fails leaves the context as it was
\* except for the status: the section's position and offset, the active
\* section, every label slot and every chain link are unchanged.
C24_FailedPutKeepsContext ==
    [][FailedPut =>
        /\ D'.sections = D.sections
        /\ D'.section = D.section
        /\ D'.lglabels = D.lglabels
        /\ D'.pclabels = D.pclabels
        /\ \A p \in Committed(D) : D'.buf[p] = D.buf[p]]_vars

\* the part that does hold: a call that did not commit its position and
\* offset recorded an error and left the active section alone
FailedPutKeepsSection ==
    [][FailedPut => (D'.status # DASM_S_OK /\ D'.section = D.section)]_vars

----------------------------------------------------------------------------
(* C25: the bits a relocation patch changes                                *)

\* the instruction bits of the mode's displacement field
RelFieldPositions ==
    IF RelK = 21 THEN (5..23) \cup (29..30)
    ELSE IF RelK = 26 THEN 0..25
    ELSE 5..(4 + RelK)

\* the field read back from an instruction word, as a number of RelK bits
RelFieldOf(w) ==
    IF RelK = 21 THEN {b - 29 : b \in (w \cap (29..30))}
                      \cup {b - 3 : b \in (w \cap (5..23))}
    ELSE IF RelK = 26 THEN w \cap (0..25)
    ELSE {b - 5 : b \in (w \cap (5..(4 + RelK)))}

\* the displacement a field denotes: sign-extended from RelK bits, times
\* 2^RelJ, as a long
RelDenotes(f) ==
    LET ext == IF (RelK - 1) \in f THEN f \cup (RelK..63) ELSE f
    IN  {b + RelJ : b \in ext} \cap (0..63)

\* the patched word changes the template only inside the field, and the
\* field denotes the displacement
RelPatchExact ==
    /\ encoded.patches[1].bits \subseteq RelFieldPositions
    /\ encoded.out[1] \ RelFieldPositions = Template \ RelFieldPositions
    /\ RelDenotes(RelFieldOf(encoded.out[1])) = encoded.ext

\* C25: in each of the five relocation modes and for every displacement
\* dasm_encode accepts, the bits OR-ed into the instruction lie inside the
\* mode's displacement field, and the sign-extended, scaled field is the
\* displacement, negative or positive.
C25_PatchStaysInField ==
    (RelCase /\ encoded.status = DASM_S_OK) => RelPatchExact

\* the same without the negative displacements of the 14-bit word mode
PatchStaysInFieldUnless14Negative ==
    (RelCase /\ encoded.status = DASM_S_OK
     /\ ~(RelK = 14 /\ 63 \in encoded.ext)) => RelPatchExact

\* a negative displacement was patched exactly in the 19-bit word mode
Negative19Patched ==
    /\ RelCase /\ encoded.status = DASM_S_OK
    /\ RelK = 19 /\ encoded.ext = LongOf(-4)
    /\ RelPatchExact

----------------------------------------------------------------------------
(* C26: the caller's array of global label addresses                       *)

\* the definition of a set that comes last in the output: the sections are
\* written in declared order
LastOut(E, defs) ==
    CHOOSE d \in defs :
        \A x \in defs :
            E[x].sec < E[d].sec \/ (E[x].sec = E[d].sec /\ x <= d)

\* the entry of an array slot dasm_encode has not written
Unwritten == dasm_setup.globals[0]

\* C26: after a successful dasm_encode, the entry of every global label
\* defined in the session is the label's final byte offset from the buffer
\* base (the offset of the instruction after the label); the entries of
\* global labels not defined are unwritten, and local labels write nothing.
C26_GlobalsArray ==
    (Encoded /\ encoded.status = DASM_S_OK) =>
        LET E == SessionItems
            L == Layout(E, 0, 1, 0, <<>>, (0 :> 0))
        IN  /\ DOMAIN D.globals = 0..(MaxGlobals - 1)
            /\ \A g \in 0..(MaxGlobals - 1) :
                LET defs == DefsOf(E, <<"G", g>>) IN
                IF defs = {} THEN D.globals[g] = Unwritten
                ELSE D.globals[g] = L.addr[LastOut(E, defs)]

\* C26 witness: global label 0 was defined after an alignment in section 1
\* and a local label was defined too; entry 0 is 16, all others unwritten.
C26_Witness ==
    /\ Encoded
    /\ encoded.status = DASM_S_OK
    /\ DefsOf(SessionItems, <<"L", 1>>) # {}
    /\ D.globals[0] = 16
    /\ \A g \in 1..(MaxGlobals - 1) : D.globals[g] = Unwritten

----------------------------------------------------------------------------
(* C27: dasm_checkstep between dasm_put calls                              *)

\* the local labels with a forward reference that no later definition
\* resolves, from the calls made
OpenLocals ==
    LET S == SessionSites IN
    {S[e].lab[2] : e \in {x \in 1..Len(S) :
                            /\ S[x].k = "ref" /\ S[x].lab[1] = "L"
                            /\ S[x].dir = "fwd"
                            /\ \A d \in DefsOf(S, S[x].lab) : d < x}}

\* the step is a dasm_checkstep call; its record
IsCheckStep == Len(steps') = Len(steps) + 1
StepRecord == steps'[Len(steps')]

\* what one dasm_checkstep call does
CheckStepEffect ==
    LET r == StepRecord
        U == OpenLocals
    IN  /\ r.ret = D'.status
        /\ IF D.status # DASM_S_OK THEN D' = D
           ELSE IF U # {}
           THEN D'.status = BitOr(DASM_S_UNDEF_LG, MinOf(U))
           ELSE /\ \A i \in 1..9 : D'.lglabels[i] = 0
                /\ D'.status =
                    IF r.secmatch >= 0 /\ D.section # r.secmatch
                    THEN BitOr(DASM_S_MATCH_SEC, D.section)
                    ELSE DASM_S_OK
        /\ D'.sections = D.sections /\ D'.section = D.section
        /\ D'.buf = D.buf /\ D'.pclabels = D.pclabels
        /\ \A i \in DOMAIN D.lglabels : i \notin 1..9 =>
                D'.lglabels[i] = D.lglabels[i]

\* the step record r cleared the local label slots
Cleared(r) == r.was = DASM_S_OK /\ ~IsUndefLgStatus(r.ret)

\* a backward reference to label 1 after a clearing step, with no
\* definition of label 1 since that step, is rejected
BackwardAfterStepRejected ==
    \A i \in 1..Len(calls) : \A k \in 1..Len(steps) :
        (/\ calls[i].start = S_BWD
         /\ steps[k].at < i /\ Cleared(steps[k])
         /\ \A j \in (steps[k].at + 1)..(i - 1) : calls[j].start # S_L1)
            => ~calls[i].ok

\* C27: dasm_checkstep(secmatch) between dasm_put calls with status OK: if a
\* local label has unresolved forward references it sets and returns
\* DASM_S_UNDEF_LG | the lowest such label; otherwise it clears the nine local
\* slots, so a later backward reference to a label defined before the step is
\* rejected, and then, if secmatch >= 0 and the active section is another
\* one, sets and returns DASM_S_MATCH_SEC | the active section.  With a
\* status that is not OK it returns the status and changes nothing.
C27_CheckStep ==
    /\ [][IsCheckStep => CheckStepEffect]_vars
    /\ []BackwardAfterStepRejected

\* C27 witness: label 1 was defined, a step with secmatch 1 in section 0
\* cleared the slots and returned DASM_S_MATCH_SEC|0, a backward reference
\* to label 1 was then rejected, and a second step returned the status of
\* that rejection.
C27_Witness ==
    /\ Len(steps) = 2 /\ Len(calls) = 2
    /\ calls[1].start = S_L1 /\ calls[1].ok
    /\ steps[1].at = 1 /\ steps[1].secmatch = 1
    /\ steps[1].ret = DASM_S_MATCH_SEC
    /\ calls[2].start = S_BWD /\ ~calls[2].ok
    /\ steps[2].at = 2
    /\ steps[2].was = BitOr(DASM_S_RANGE_LG, S_BWD + 1)
    /\ steps[2].ret = steps[2].was

\* a step found the labels 1 and 2 open, and a step found only label 2
\* open after label 1 was defined and referenced backward
StepSawLowest ==
    /\ steps # <<>> /\ OpenLocals = {1, 2}
    /\ steps[Len(steps)].ret = BitOr(DASM_S_UNDEF_LG, 1)
StepSawSecond ==
    /\ steps # <<>> /\ OpenLocals = {2}
    /\ DefsOf(SessionSites, <<"L", 1>>) # {}
    /\ steps[Len(steps)].ret = BitOr(DASM_S_UNDEF_LG, 2)
    /\ D.lglabels[1] = 0

----------------------------------------------------------------------------
(* C28: the lsb and width of a bitfield insert                             *)

BfiCase == calls # <<>> /\ TheCall.start \in {S_BFI32, S_BFI64}
BfiSize == IF TheCall.start = S_BFI64 THEN 64 ELSE 32
BfiLsb == IntOf(TheCall.args[1])
BfiWidth == IntOf(TheCall.args[2])

\* DASM_IMMLSB accepts exactly 0 <= lsb <= size - 1 and stores
\* (size - lsb) mod size at bit 16
LsbChecked ==
    IF BfiLsb \in 0..(BfiSize - 1)
    THEN D.buf[1] = ((BfiSize - BfiLsb) % BfiSize) * 65536
    ELSE ~TheCall.ok /\ D.status = BitOr(DASM_S_RANGE_I, TheCall.start + 1)

\* DASM_IMMWIDTH1 after an accepted lsb accepts n exactly when
\* 1 <= n <= size - lsb and stores n - 1 at bit 10
WidthChecked ==
    BfiLsb \in 0..(BfiSize - 1) =>
        IF BfiWidth \in 1..(BfiSize - BfiLsb)
        THEN TheCall.ok /\ D.buf[2] = (BfiWidth - 1) * 1024
        ELSE ~TheCall.ok /\ D.status = BitOr(DASM_S_RANGE_I, TheCall.start + 2)

\* C28: DASM_IMMWIDTH1 following a DASM_IMMLSB that was given lsb,
\* 0 <= lsb < size, accepts a width n exactly when 1 <= n <= size - lsb and
\* stores n - 1 at bit 10, rejecting every other n with DASM_S_RANGE_I;
\* DASM_IMMLSB accepts exactly 0 <= lsb <= size - 1 and stores
\* (size - lsb) mod size at bit 16.
C28_WidthAfterLsb == BfiCase => (LsbChecked /\ WidthChecked)

\* the same for lsb >= 1; with lsb = 0 every width is rejected
WidthAfterNonzeroLsb ==
    BfiCase =>
        /\ LsbChecked
        /\ BfiLsb # 0 => WidthChecked
        /\ BfiLsb = 0 =>
            (~TheCall.ok /\ D.status = BitOr(DASM_S_RANGE_I, TheCall.start + 2))

\* a 64-bit insert of the top bit was accepted
BfiTopBitAccepted ==
    /\ BfiCase /\ BfiSize = 64 /\ BfiLsb = 63 /\ BfiWidth = 1
    /\ TheCall.ok /\ D.buf[1] = 65536 /\ D.buf[2] = 0

----------------------------------------------------------------------------
(* C29: the a..h field of a floating-point immediate, expanded again       *)

\* bit i of the stored buffer word
StoredBit(i) == i \in IntBits(Stored)

\* the a..h bits of the stored word: abc at 18..16 and defgh at 9..5 for
\* DASM_IMMA2HFP, abcdefgh at 20..13 for DASM_IMM8FP (h first)
FpFieldAt ==
    IF TheCall.start = S_A2HFP THEN <<5, 6, 7, 8, 9, 16, 17, 18>>
    ELSE <<13, 14, 15, 16, 17, 18, 19, 20>>
FpField == [i \in 1..8 |-> StoredBit(FpFieldAt[i])]

\* the architecture's expansion of abcdefgh to a double: sign a, exponent
\* NOT(b) : b x 8 : c : d, fraction efgh followed by 48 zero bits
VFPExpandImm(f) ==
    (IF f[8] THEN {63} ELSE {})
    \cup (IF f[7] THEN 54..61 ELSE {62})
    \cup (IF f[6] THEN {53} ELSE {})
    \cup (IF f[5] THEN {52} ELSE {})
    \cup {47 + i : i \in {j \in 1..4 : f[j]}}

\* C29: for every bit pattern DASM_IMMA2HFP or DASM_IMM8FP accepts,
\* expanding the stored a..h field by the architecture's rule gives back the
\* pattern; 1.0 is stored with a = 0, b = c = d = 1, efgh = 0.
C29_FpFieldExpandsBack ==
    (FpCase /\ TheCall.ok) =>
        /\ VFPExpandImm(FpField) = Operand
        /\ Operand = 52..61 =>
                FpField = <<FALSE, FALSE, FALSE, FALSE, TRUE, TRUE, TRUE, FALSE>>

\* what the code stores: exponent bit 10 in the place of b, so that the
\* field with b complemented expands to the pattern's top sixteen bits
FpFieldHoldsInvertedB ==
    (FpCase /\ TheCall.ok) =>
        VFPExpandImm([FpField EXCEPT ![7] = ~FpField[7]])
            = Operand \cap (48..63)

\* 1.0 was accepted by DASM_IMM8FP and stored with b = 0
OneStoredAsSixteen ==
    /\ FpCase /\ TheCall.ok /\ TheCall.start = S_8FP
    /\ Operand = 52..61
    /\ VFPExpandImm(FpField) = {62, 53, 52}

----------------------------------------------------------------------------
(* C30: the brackets of the compiled text                                  *)

\* the positions of a character among the first n of text t
At(t, ch, n) == {i \in 1..n : t[i] = ch}
\* the number of ch strictly between positions i and j
Between(t, ch, i, j) == Cardinality({x \in (i + 1)..(j - 1) : t[x] = ch})

\* the `[` a `]` at position j closes: the nearest one before it with as
\* many `[` as `]` in between; 0 if there is none
Partner(t, j) ==
    LET C == {i \in At(t, "[", j - 1) :
                Between(t, "[", i, j) = Between(t, "]", i, j)}
    IN  IF C = {} THEN 0 ELSE MaxOf(C)

\* the `[` among the first n characters that no `]` among them closes
OpenAt(t, n) ==
    At(t, "[", n) \ {Partner(t, j) : j \in At(t, "]", n)}

\* the number compile gives the `[` at position i
NumberOf(t, i) == Cardinality(At(t, "[", i - 1))

\* the first n characters can be compiled: every `]` has a partner and the
\* nesting never exceeds STACKSIZE
Compilable(t, n) ==
    /\ \A j \in At(t, "]", n) : Partner(t, j) # 0
    /\ \A i \in At(t, "[", n) : Cardinality(OpenAt(t, i)) <= STACKSIZE

\* the labels printed so far are those of the brackets read so far: each
\* `[` with a number of its own, each `]` with the number of its partner
PairedSoFar ==
    LET t == cc.text
        n == cc.i - 1
    IN  /\ \A k \in 1..Len(cc.out) :
            LET o == cc.out[k] IN
            IF t[o.at] = "["
            THEN o.lab[2] = NumberOf(t, o.at)
                 /\ o.lab[1] = (IF o.k = "jump" THEN "end" ELSE "start")
            ELSE o.lab[2] = NumberOf(t, Partner(t, o.at))
                 /\ o.lab[1] = (IF o.k = "jump" THEN "start" ELSE "end")
        /\ \A i \in At(t, "[", n) \cup At(t, "]", n) :
                {cc.out[k].k : k \in {x \in 1..Len(cc.out) : cc.out[x].at = i}}
                    = {"jump", "def"}
        /\ Len(cc.out) = 2 * Cardinality(At(t, "[", n) \cup At(t, "]", n))

\* the stack holds the numbers of the open brackets, innermost last
StackIsOpenBrackets ==
    LET t == cc.text
        O == OpenAt(t, cc.i - 1)
    IN  /\ Len(cc.stack) = Cardinality(O)
        /\ {cc.stack[k] : k \in 1..Len(cc.stack)} = {NumberOf(t, i) : i \in O}
        /\ \A k \in 1..(Len(cc.stack) - 1) : cc.stack[k] < cc.stack[k + 1]

\* err is called exactly at a `]` without partner or a `[` nested deeper
\* than STACKSIZE, with the stack as it was
ErrWhenUnpaired ==
    LET t == cc.text IN
    /\ cc.state \in {"run", "done"} => Compilable(t, cc.i - 1)
    /\ cc.state = "err" =>
        /\ Compilable(t, cc.i - 1) /\ ~Compilable(t, cc.i)
        /\ (t[cc.i] = "[" => Len(cc.stack) = STACKSIZE)
        /\ (t[cc.i] = "]" => Len(cc.stack) = 0)

\* every label a jump names is defined exactly once
JumpsDefined ==
    \A k \in 1..Len(cc.out) :
        cc.out[k].k = "jump" =>
            Cardinality({x \in 1..Len(cc.out) :
                cc.out[x].k = "def" /\ cc.out[x].lab = cc.out[k].lab}) = 1

\* C30: for any source text compile either ends through err or emits
\* assembly in which every bracket label a jump refers to is defined exactly
\* once and each `]` is paired with the nearest preceding unmatched `[`; a
\* `]` with no open `[` and nesting deeper than STACKSIZE lead to err; a `[`
\* never closed does not yield output with a jump to an undefined label;
\* stack_push and stack_pop are LIFO and change nothing when the stack is
\* full or empty.
C30_BracketsPaired ==
    cc.state # "idle" =>
        /\ PairedSoFar
        /\ StackIsOpenBrackets
        /\ ErrWhenUnpaired
        /\ cc.state = "done" => JumpsDefined

\* the same, the jumps being required to be defined only when every `[` of
\* the text is closed
BracketsPairedWhenClosed ==
    cc.state # "idle" =>
        /\ PairedSoFar
        /\ StackIsOpenBrackets
        /\ ErrWhenUnpaired
        /\ (cc.state = "done" /\ OpenAt(cc.text, Len(cc.text)) = {})
                => JumpsDefined

\* a nest of STACKSIZE brackets was compiled, the nest one deeper and a
\* lone `]` ended in err, and a lone `[` was compiled to the end
FullNestCompiled ==
    cc.text = FullNest /\ cc.state = "done" /\ JumpsDefined
DeepNestRejected ==
    cc.text = DeepNest /\ cc.state = "err" /\ cc.i = STACKSIZE + 1
LoneCloseRejected == cc.text = <<"]">> /\ cc.state = "err"
LoneOpenCompiled == cc.text = <<"[">> /\ cc.state = "done" /\ ~JumpsDefined

====
